---------------------------- MODULE Spec2Model ----------------------------
(***************************************************************************)
(* A model of the notebooks of the repository: Swin Transformer (v1),      *)
(* Swin Transformer v2 and Vision Transformer.                             *)
(*                                                                         *)
(* A tensor is modelled at two levels.  The forward machine carries the    *)
(* SHAPE of the tensor through the module graph (every view, permute,      *)
(* Linear, LayerNorm and Unfold checks what the tensor library checks and  *)
(* raises what it raises).  The index operators further down follow single *)
(* ELEMENTS through the views and permutes of the window attention and of  *)
(* the patch merging.                                                      *)
(*                                                                         *)
(* There are nine machines over one set of variables, each with its own    *)
(* specification; the variables of the machines a specification does not   *)
(* run stay idle:                                                          *)
(*   SpecForward  the calls of forward of a model, on shapes;              *)
(*   SpecConstruct  the constructor of a model and the first forward;      *)
(*   SpecBlock    the blocks of a stage and the calls of SwinBlock.forward;*)
(*   SpecTau      the parameter tau of Swin v2 and the division by it;     *)
(*   SpecDrop     the calls of DropPath.forward, on exact fractions;       *)
(*   SpecToken    the tokens of each image through ViT.forward;            *)
(*   SpecWindow   the calls of WindowAttention.forward (v1), on elements;  *)
(*   SpecMerge    the calls of PatchMerging.forward (v1), on elements;     *)
(*   SpecTrain    the training cell and the cell that saves the model,     *)
(*                with the forward machine running every model(x).         *)
(***************************************************************************)
EXTENDS Integers, Sequences, FiniteSets, TLC

VARIABLES
    arch,     \* which notebook's model: "swin1", "swin2" or "vit"
    cfg,      \* the constructor arguments of the model
    input,    \* the shape of the tensor given to forward
    x,        \* the local x of forward: a shape, or the exception raised
    pc,       \* the position of forward in the module graph
    stage,    \* the stage (Swin) being run, 1..4
    iter,     \* how many iterations the current loop of forward has made
    log,      \* the modules the current stage has applied, in order
    attn,     \* ViT: MultiHeadAttention.attn of each encoder layer
    assigned, \* the attributes of modules that forward calls have assigned
    \* One WindowAttention module (Swin v1) and its calls, element by element.
    wmod,     \* the attributes __init__ sets: window_size, shift_size, heads, d_k
    bufs,     \* the buffers: relative_indices and the two masks of the stage
    winp,     \* the input of the current call: b, h, w and the training flag
    wx,       \* the local x of WindowAttention.forward: index -> element it holds
    query,    \* the local query: index -> the index of x it was taken from
    scores,   \* the local scores: index -> query token, key token, bias, masked
    wpc,      \* the position of WindowAttention.forward
    \* The training cell of a notebook and the cell that saves the model.
    loaders,  \* the number of batches of loader_train and of loader_val
    epoch,    \* the loop variable of the epoch loop
    batch,    \* how many batches of the current loader have been visited
    tpc,      \* the statement the cell is at
    training, \* model.training
    params,   \* the parameters: how many optimizer steps have updated them
    grads,    \* the gradients: "None", "zero" or the backward pass that set them
    printed,  \* how many result lines have been printed
    saved,    \* what torch.save has written, in order
    visits,   \* the batches the loops of the current epoch have taken, in order
    \* One PatchMerging module of Swin v1 and the calls of its forward; an
    \* element of a tensor is named by the index of x it is taken from.
    pmod,     \* in_channels, out_channels and downscaling_factor of the module
    pinp,     \* the shape of the input x of the current call
    px,       \* x after the unfold, view and permute
    pout,     \* the result: its shape, and the elements of the input each token is computed from
    ppc,      \* the position of PatchMerging.forward
    \* One StageModule and the calls of its blocks, on expressions.
    bmod,     \* the notebook of the stage, its window_size and its layers
    bargs,    \* the current block: its shift_size and the mask forward was given
    bx,       \* the local x of SwinBlock.forward, an expression over its argument
    bval,     \* the value of the innermost call evaluated so far
    bi,       \* which call of SwinBlock.forward comes next
    bcalls,   \* the module calls of the current block, with the arguments received
    breads,   \* what the reads of mask[0] and mask[1] in the current block found
    bpair,    \* how many pairs of blocks the stage has run
    bpc,      \* the position of StageModule.forward
    \* The parameter tau of one WindowAttention module of Swin v2.
    tau,      \* the value of tau for each head, in thousandths
    divisor,  \* what scores is divided by: unset, a value for each head, or an exception
    \* One DropPath module and the calls of its forward; numbers are fractions.
    dmod,     \* drop_prob, scale_by_keep and training of the module
    dinp,     \* the input x: for each sample of the batch, its elements
    drand,    \* the local random_tensor: one number for each sample
    dout,     \* what forward returned: for each sample, its elements
    dpc,      \* the position of DropPath.forward
    \* The embedding of a ViT and the sequence of tokens through forward.
    cmod,     \* img_size, patch_size and N of make_model
    cinp,     \* the batch size of the input
    cseq,     \* the local x: for each batch element, the tokens of its sequence
    cfed,     \* what the generator was given: for each batch element, a token
    cpc       \* the position of ViT.forward

fvars == <<arch, cfg, input, x, pc, stage, iter, log, attn, assigned>>
wvars == <<wmod, bufs, winp, wx, query, scores, wpc>>
tvars == <<loaders, epoch, batch, tpc, training, params, grads, printed, saved, visits>>
pvars == <<pmod, pinp, px, pout, ppc>>
bvars == <<bmod, bargs, bx, bval, bi, bcalls, breads, bpair, bpc>>
svars == <<tau, divisor>>
dvars == <<dmod, dinp, drand, dout, dpc>>
cvars == <<cmod, cinp, cseq, cfed, cpc>>
vars == <<fvars, wvars, tvars, pvars, bvars, svars, dvars, cvars>>

(***************************************************************************)
(* Bounds of the model.                                                    *)
(***************************************************************************)
MaxWindow == 4
MaxSideUnits == 8
MaxBatch == 2
MaxWindowSize == 3
MaxWindowsPerSide == 2
MaxTrainBatches == 3
MaxValBatches == 2
MaxFactor == 3
MaxMergeSide == 6
MaxRollSize == 5

Sides == {16 * k : k \in 1..MaxSideUnits}

(***************************************************************************)
(* The tensor library, on shapes.                                          *)
(***************************************************************************)
Ok(s) == [err |-> "none", shape |-> s]
Raise(e) == [err |-> e, shape |-> <<>>]

RECURSIVE Prod(_)
Prod(s) == IF s = <<>> THEN 1 ELSE Head(s) * Prod(Tail(s))

numel(s) == Prod(s)

\* Tensor.view(*target): target holds at most one -1, the inferred dimension.
view(t, target) ==
    IF t.err # "none" THEN t
    ELSE LET known == Prod([i \in DOMAIN target |->
                              IF target[i] = -1 THEN 1 ELSE target[i]])
             infer == \E i \in DOMAIN target : target[i] = -1
             n     == numel(t.shape)
         IN  IF infer
             THEN IF known = 0 \/ n % known # 0
                  THEN Raise("RuntimeError")
                  ELSE Ok([i \in DOMAIN target |->
                             IF target[i] = -1 THEN n \div known ELSE target[i]])
             ELSE IF known # n THEN Raise("RuntimeError") ELSE Ok(target)

\* Tensor.permute(*dims): dims are 0-based, as in the source.
permute(t, dims) ==
    IF t.err # "none" THEN t
    ELSE IF Len(dims) # Len(t.shape) THEN Raise("RuntimeError")
    ELSE Ok([i \in DOMAIN dims |-> t.shape[dims[i] + 1]])

\* nn.Linear(in_features, out_features) applied to t.
Linear(t, in_f, out_f) ==
    IF t.err # "none" THEN t
    ELSE IF t.shape = <<>> \/ t.shape[Len(t.shape)] # in_f THEN Raise("RuntimeError")
    ELSE Ok([t.shape EXCEPT ![Len(t.shape)] = out_f])

\* nn.LayerNorm(n) applied to t.
LayerNorm(t, n) ==
    IF t.err # "none" THEN t
    ELSE IF t.shape = <<>> \/ t.shape[Len(t.shape)] # n THEN Raise("RuntimeError")
    ELSE t

\* nn.Unfold(kernel_size=f, stride=f, padding=0) applied to a [B, C, H, W] tensor.
Unfold(t, f) ==
    IF t.err # "none" THEN t
    ELSE IF Len(t.shape) # 4 THEN Raise("RuntimeError")
    ELSE LET b == t.shape[1]
             c == t.shape[2]
             h == t.shape[3]
             w == t.shape[4]
         IN  IF h < f \/ w < f THEN Raise("RuntimeError")
             ELSE Ok(<<b, c * f * f, (((h - f) \div f) + 1) * (((w - f) \div f) + 1)>>)

\* a + b (or an in-place a op b) of two tensors whose shapes must broadcast;
\* the result has the shape of a, which is never the smaller one in this code.
Broadcast(a, b) ==
    IF a.err # "none" THEN a
    ELSE IF b.err # "none" THEN b
    ELSE LET la == Len(a.shape)
             lb == Len(b.shape)
         IN  IF lb > la THEN Raise("RuntimeError")
             ELSE IF \A i \in 1..lb :
                        \/ b.shape[i] = 1
                        \/ b.shape[i] = a.shape[la - lb + i]
                  THEN a
                  ELSE Raise("RuntimeError")

\* torch.matmul(q, k.transpose(-2, -1)) of two tensors of the same shape.
ScoresShape(q) ==
    IF q.err # "none" THEN q
    ELSE LET n == Len(q.shape)
         IN  Ok([q.shape EXCEPT ![n] = q.shape[n - 1]])

(***************************************************************************)
(* FeedForward (both Swin notebooks).                                      *)
(***************************************************************************)
FeedForward(t, in_features, hidden_features, out_features) ==
    Linear(Linear(t, in_features, hidden_features), hidden_features, out_features)

(***************************************************************************)
(* Swin v1: WindowAttention.forward, on shapes.                            *)
(***************************************************************************)
\* The shape of the buffers built by StageModule.__create_mask.
MaskShape(window_size) == Ok(<<window_size * window_size, window_size * window_size>>)

\* self.pos_embedding[:, :, relative_indices[:, :, 0], relative_indices[:, :, 1]]
PosBiasShape(window_size, number_of_heads) ==
    Ok(<<number_of_heads, 1, window_size * window_size, window_size * window_size>>)

\* lin(x).view(b, nw_h, ws, nw_w, ws, heads, d_k).permute(0, 5, 1, 3, 2, 4, 6)
\*       .contiguous().view(b, heads, nw_h * nw_w, ws * ws, d_k)
WindowPartitionShape(t, in_features, window_size, number_of_heads) ==
    IF t.err # "none" THEN t
    ELSE IF Len(t.shape) # 4 THEN Raise("ValueError")
    ELSE LET b    == t.shape[1]
             h    == t.shape[2]
             w    == t.shape[3]
             nw_h == h \div window_size
             nw_w == w \div window_size
             d_k  == in_features \div number_of_heads
             l    == Linear(t, in_features, in_features)
             v    == view(l, <<b, nw_h, window_size, nw_w, window_size,
                              number_of_heads, d_k>>)
             p    == permute(v, <<0, 5, 1, 3, 2, 4, 6>>)
         IN  view(p, <<b, number_of_heads, nw_h * nw_w,
                       window_size * window_size, d_k>>)

\* x.view(b, heads, nw_h, nw_w, ws, ws, d_k).permute(0, 2, 4, 3, 5, 1, 6)
\*  .contiguous().view(b, h, w, -1)
WindowMergeShape(t, b, h, w, window_size, number_of_heads, d_k) ==
    LET nw_h == h \div window_size
        nw_w == w \div window_size
        v    == view(t, <<b, number_of_heads, nw_h, nw_w, window_size,
                         window_size, d_k>>)
        p    == permute(v, <<0, 2, 4, 3, 5, 1, 6>>)
    IN  view(p, <<b, h, w, -1>>)

\* mask is "None" or "pair" (the tuple of the two buffers of the stage).
WindowAttention(t, mask, in_features, window_size, number_of_heads, shift_size) ==
    IF t.err # "none" THEN t
    ELSE IF Len(t.shape) # 4 THEN Raise("ValueError")
    ELSE LET b      == t.shape[1]
             h      == t.shape[2]
             w      == t.shape[3]
             d_k    == in_features \div number_of_heads
             q_shape  == WindowPartitionShape(t, in_features, window_size, number_of_heads)
             s_shape == Broadcast(ScoresShape(q_shape),
                                 PosBiasShape(window_size, number_of_heads))
             masked == IF shift_size = 0 THEN s_shape
                       ELSE IF mask = "None" THEN Raise("TypeError")
                       ELSE Broadcast(s_shape, MaskShape(window_size))
             out    == IF masked.err # "none" THEN masked ELSE q_shape
             merged == WindowMergeShape(out, b, h, w, window_size, number_of_heads, d_k)
         IN  Linear(merged, in_features, in_features)

(***************************************************************************)
(* Swin v1: SwinBlock.forward.                                             *)
(***************************************************************************)
SwinBlock(t, mask, in_features, window_size, number_of_heads, shift_size, ffn_feature_ratio) ==
    LET a == WindowAttention(LayerNorm(t, in_features), mask, in_features,
                             window_size, number_of_heads, shift_size)
        y == Broadcast(t, a)
        f == FeedForward(LayerNorm(y, in_features), in_features,
                         in_features * ffn_feature_ratio, in_features)
    IN  Broadcast(y, f)

(***************************************************************************)
(* Swin v1: PatchMerging.forward.                                          *)
(***************************************************************************)
\* x = self.patch_merge(x).view(b, -1, new_h, new_w).permute(0, 2, 3, 1)
patch_merge(t, downscaling_factor) ==
    IF t.err # "none" THEN t
    ELSE IF Len(t.shape) # 4 THEN Raise("ValueError")
    ELSE LET b     == t.shape[1]
             h     == t.shape[3]
             w     == t.shape[4]
             new_h == h \div downscaling_factor
             new_w == w \div downscaling_factor
             u     == Unfold(t, downscaling_factor)
         IN  permute(view(u, <<b, -1, new_h, new_w>>), <<0, 2, 3, 1>>)

\* return self.linear(x)
PatchMerging(t, in_channels, out_channels, downscaling_factor) ==
    Linear(patch_merge(t, downscaling_factor), in_channels * downscaling_factor * downscaling_factor,
           out_channels)

(***************************************************************************)
(* Swin v2: WindowAttention.forward and SwinBlock.forward.  Besides the    *)
(* shapes, the calls of v2 are followed by the kind of their arguments:    *)
(* what Python and the tensor library raise for them is part of forward.   *)
(***************************************************************************)
\* torch.maximum(input, other): both arguments must be tensors.
torch_maximum(t, other) ==
    IF t.err # "none" THEN t
    ELSE IF other # "Tensor" THEN Raise("TypeError")
    ELSE t

\* Python's max(a, b) with a a tensor of n elements and b a float: it
\* evaluates bool(b > a), which only a tensor of one element has.
builtin_max(t, n) ==
    IF t.err # "none" THEN t
    ELSE IF n # 1 THEN Raise("RuntimeError")
    ELSE t

\* The attributes WindowAttention.__init__ (v2) sets on self.
WindowAttentionV2Attributes ==
    {"in_features", "window_size", "number_of_heads", "shift_size", "d_k",
     "cyclic_shift", "cyclic_back_shift", "linears", "relative_distances_log",
     "meta_network", "tau", "dropout_attention", "dropout_proj"}

\* self.<name>: nn.Module.__getattr__ raises for a name that was never set.
getattr(t, name) ==
    IF t.err # "none" THEN t
    ELSE IF name \notin WindowAttentionV2Attributes THEN Raise("AttributeError")
    ELSE t

\* WindowAttention.__get_positional_encoding (v2), added to scores.
get_positional_encoding(s_shape, window_size, number_of_heads) ==
    LET n    == window_size * window_size
        meta == Linear(Linear(Ok(<<n, n, 2>>), 2, 256), 256, number_of_heads)
        perm == permute(meta, <<2, 0, 1>>)
        rpb  == view(getattr(perm, "num_of_heads"), <<number_of_heads, 1, n, n>>)
    IN  IF s_shape.err # "none" THEN s_shape ELSE Broadcast(s_shape, rpb)

WindowAttentionV2(t, mask, in_features, window_size, number_of_heads, shift_size) ==
    IF t.err # "none" THEN t
    ELSE IF Len(t.shape) # 4 THEN Raise("ValueError")
    ELSE LET b      == t.shape[1]
             h      == t.shape[2]
             w      == t.shape[3]
             d_k    == in_features \div number_of_heads
             q_shape  == WindowPartitionShape(t, in_features, window_size, number_of_heads)
             cosine == torch_maximum(ScoresShape(q_shape), "float")
             scaled == builtin_max(cosine, number_of_heads)
             s_shape == get_positional_encoding(scaled, window_size, number_of_heads)
             masked == IF shift_size = 0 THEN s_shape
                       ELSE IF s_shape.err # "none" THEN s_shape
                       ELSE IF mask = "None" THEN Raise("TypeError")
                       ELSE Broadcast(s_shape, MaskShape(window_size))
             out    == IF masked.err # "none" THEN masked ELSE q_shape
             merged == WindowMergeShape(out, b, h, w, window_size, number_of_heads, d_k)
         IN  Linear(merged, in_features, in_features)

\* nn.Module.__call__ of a LayerNorm with nargs positional arguments:
\* LayerNorm.forward takes the input alone.
LayerNormCall(t, n, nargs) ==
    IF t.err # "none" THEN t
    ELSE IF nargs # 1 THEN Raise("TypeError")
    ELSE LayerNorm(t, n)

\* x = x + self.drop_path(self.norm1(self.attention(x), mask))
\* return x + self.drop_path(self.norm2(self.feed_forward(x)))
SwinBlockV2(t, mask, in_features, window_size, number_of_heads, shift_size, ffn_feature_ratio) ==
    LET a == WindowAttentionV2(t, "None", in_features, window_size, number_of_heads, shift_size)
        n == LayerNormCall(a, in_features, 2)
        y == Broadcast(t, n)
        f == FeedForward(y, in_features, in_features * ffn_feature_ratio, in_features)
    IN  Broadcast(y, LayerNormCall(f, in_features, 1))

\* PatchMerging.forward (v2): return self.norm(self.linear(x))
PatchMergingV2(t, in_channels, out_channels, downscaling_factor) ==
    LayerNorm(PatchMerging(t, in_channels, out_channels, downscaling_factor), out_channels)

(***************************************************************************)
(* Vision Transformer, on shapes.                                          *)
(***************************************************************************)
\* nn.Conv2d(channels_in, d_model, kernel_size=p, stride=p) on [b, c, h, w].
Conv2d(t, channels_in, d_model, p) ==
    IF t.err # "none" THEN t
    ELSE IF Len(t.shape) # 4 THEN Raise("RuntimeError")
    ELSE IF t.shape[2] # channels_in THEN Raise("RuntimeError")
    ELSE IF t.shape[3] < p \/ t.shape[4] < p THEN Raise("RuntimeError")
    ELSE Ok(<<t.shape[1], d_model, ((t.shape[3] - p) \div p) + 1, ((t.shape[4] - p) \div p) + 1>>)

\* PatchEmbedding.forward: conv, flatten(2), transpose(1, 2), cat with cls_token.
PatchEmbedding(t, patch_size, channels_in, d_model) ==
    LET c == Conv2d(t, channels_in, d_model, patch_size)
    IN  IF c.err # "none" THEN c
        ELSE Ok(<<c.shape[1], c.shape[3] * c.shape[4] + 1, c.shape[2]>>)

NumStepsWithoutCls(img_size, patch_size) == (img_size \div patch_size) * (img_size \div patch_size)
\* make_model: the num_steps given to PositionalEmbedding.
NumSteps(img_size, patch_size) == (img_size \div patch_size) * (img_size \div patch_size) + 1

\* PositionalEmbedding.forward: self.dropout(x + self.pos_embedding)
PositionalEmbedding(t, num_steps, d_model) ==
    Broadcast(t, Ok(<<1, num_steps, d_model>>))

\* MultiHeadAttention.forward with query = key = value = t.
MultiHeadAttention(t, h, d_model) ==
    IF t.err # "none" THEN t
    ELSE LET nbatches == t.shape[1]
             d_k      == d_model \div h
             q        == view(Linear(t, d_model, d_model), <<nbatches, -1, h, d_k>>)
             qt       == permute(q, <<0, 2, 1, 3>>)
             xo       == permute(qt, <<0, 2, 1, 3>>)
         IN  Linear(view(xo, <<nbatches, -1, h * d_k>>), d_model, d_model)

\* MultiHeadAttention.forward: the p_attn of attention(query, key, value) that
\* "x, self.attn = attention(...)" binds to self.attn.
MultiHeadAttentionAttn(t, h, d_model) ==
    IF t.err # "none" THEN t
    ELSE LET nbatches == t.shape[1]
             d_k      == d_model \div h
             q        == view(Linear(t, d_model, d_model), <<nbatches, -1, h, d_k>>)
         IN  ScoresShape(permute(q, <<0, 2, 1, 3>>))

\* PositionwiseFeedForward.forward
PositionwiseFeedForward(t, d_model, d_ff) == Linear(Linear(t, d_model, d_ff), d_ff, d_model)

\* SublayerConnection.forward around each of the two sublayers of EncoderLayer.forward.
EncoderLayer(t, c) ==
    LET a == Broadcast(t, MultiHeadAttention(LayerNorm(t, c.d_model), c.h, c.d_model))
    IN  Broadcast(a, PositionwiseFeedForward(LayerNorm(a, c.d_model), c.d_model, c.d_ff))

\* ViT.forward: self.generator(self.encode(x)[:, 0])
Generator(t, d_model, num_classes) ==
    IF t.err # "none" THEN t
    ELSE IF Len(t.shape) < 2 \/ t.shape[2] < 1 THEN Raise("IndexError")
    ELSE Linear(Ok(<<t.shape[1]>> \o SubSeq(t.shape, 3, Len(t.shape))), d_model, num_classes)

(***************************************************************************)
(* StageModule and SwinTransformer: the constructor's arithmetic.          *)
(***************************************************************************)
RECURSIVE Pow2(_)
Pow2(n) == IF n = 0 THEN 1 ELSE 2 * Pow2(n - 1)

StageInChannelsOffByOne(c, i) == IF i = 1 THEN c.in_channels ELSE c.in_features * Pow2(i - 1)
\* SwinTransformer.__init__: the in_channels argument given to stage i.
StageInChannels(c, i) == IF i = 1 THEN c.in_channels ELSE c.in_features * Pow2(i - 2)

StageInFeaturesLinear(c, i) == c.in_features * i
\* SwinTransformer.__init__: the in_features argument given to stage i.
StageInFeatures(c, i) == c.in_features * Pow2(i - 1)

\* StageModule.__init__: self.shift_size, and the shift_size of layers_shifted.
ShiftSize(window_size) == window_size \div 2

ConstructibleHeadsOnly(c) == \A i \in 1..4 : StageInFeatures(c, i) % c.heads[i] = 0
\* The two asserts of the constructors: StageModule's on layers and
\* WindowAttention's on number_of_heads.
Constructible(c) ==
    \A i \in 1..4 :
        /\ c.num_layers[i] % 2 = 0
        /\ StageInFeatures(c, i) % c.heads[i] = 0

\* SwinBlock.forward of the notebook that arch names.
Block(a, t, mask, c, i, shift_size) ==
    IF a = "swin1"
    THEN SwinBlock(t, mask, StageInFeatures(c, i), c.window_size, c.heads[i], shift_size, c.ffn_feature_ratio)
    ELSE SwinBlockV2(t, mask, StageInFeatures(c, i), c.window_size, c.heads[i], shift_size, c.ffn_feature_ratio)

\* PatchMerging.forward of the notebook that arch names.
Merge(a, t, c, i) ==
    IF a = "swin1"
    THEN PatchMerging(t, StageInChannels(c, i), StageInFeatures(c, i), c.downscaling_factors[i])
    ELSE PatchMergingV2(t, StageInChannels(c, i), StageInFeatures(c, i), c.downscaling_factors[i])

\* SwinTransformer.forward, after the stages: self.mlp_head(x.mean(dim=[2, 3])).
MlpHead(a, t, c) ==
    IF t.err # "none" THEN t
    ELSE IF Len(t.shape) # 4 THEN Raise("IndexError")
    ELSE LET m == Ok(<<t.shape[1], t.shape[2]>>)
         IN  IF a = "swin1"
             THEN Linear(LayerNorm(m, c.in_features * 8), c.in_features * 8, c.num_classes)
             ELSE Linear(m, c.in_features * 8, c.num_classes)

(***************************************************************************)
(* The tensor library, on elements.  Indices are 0-based sequences, as in  *)
(* the source; a contiguous tensor of shape s holds the element of index i *)
(* at the flat offset Ravel(i, s).                                         *)
(***************************************************************************)
Front(s) == SubSeq(s, 1, Len(s) - 1)

RECURSIVE Ravel(_, _)
Ravel(i, s) == IF i = <<>> THEN 0 ELSE Ravel(Front(i), Front(s)) * s[Len(s)] + i[Len(i)]

RECURSIVE Unravel(_, _)
Unravel(o, s) == IF s = <<>> THEN <<>> ELSE Append(Unravel(o \div s[Len(s)], Front(s)), o % s[Len(s)])

\* t.contiguous().view(to): the index, in the view, of the element at index i
\* of a tensor of shape from.
ViewIndex(i, from, to) == Unravel(Ravel(i, from), to)

\* t.permute(dims): the shape of the result.
PermuteShape(s, dims) == [k \in DOMAIN dims |-> s[dims[k] + 1]]

\* t.permute(dims)[j] is t[PermuteSource(j, dims)]: dimension k of the result
\* is dimension dims[k] of t.
PermuteSource(j, dims) ==
    [d \in DOMAIN dims |-> j[CHOOSE k \in DOMAIN dims : dims[k] + 1 = d]]

RollSourceForward(r, d, n) == (r + d) % n
\* torch.roll(t, shifts=d, dims=...): the index read for position r of a
\* dimension of size n.
RollSource(r, d, n) == (r - d) % n

PyIndexAbs(i, n) == IF i < 0 THEN -i ELSE i
\* A Python index i into a dimension of size n: a negative one counts from the end.
PyIndex(i, n) == IF i < 0 THEN i + n ELSE i

\* The positions a Python slice selects in a dimension of size n.
SliceFromEnd(k, n) == IF k = 0 THEN 0..(n - 1) ELSE (IF n - k < 0 THEN 0 ELSE n - k)..(n - 1)
SliceToEnd(k, n) == IF k = 0 THEN {} ELSE 0..(n - k - 1)
SliceStep(start, step, n) == {i \in 0..(n - 1) : i >= start /\ (i - start) % step = 0}

(***************************************************************************)
(* Swin v1: the buffers.                                                   *)
(***************************************************************************)
\* WindowAttention.__register_relative_distances: indices[p] is the p-th
\* [i, j] of the list comprehension, distances[i][j] = indices[j] - indices[i].
RelativeIndex(p, window_size) == <<p \div window_size, p % window_size>>

relative_distances_sum(window_size) ==
    [i \in 0..(window_size * window_size - 1) |->
        [j \in 0..(window_size * window_size - 1) |->
            <<RelativeIndex(j, window_size)[1] + RelativeIndex(i, window_size)[1],
              RelativeIndex(j, window_size)[2] + RelativeIndex(i, window_size)[2]>>]]

relative_distances(window_size) ==
    [i \in 0..(window_size * window_size - 1) |->
        [j \in 0..(window_size * window_size - 1) |->
            <<RelativeIndex(j, window_size)[1] - RelativeIndex(i, window_size)[1],
              RelativeIndex(j, window_size)[2] - RelativeIndex(i, window_size)[2]>>]]

create_left_right_mask_ones(window_size, shift_size) ==
    [i \in 0..(window_size * window_size - 1) |-> [j \in 0..(window_size * window_size - 1) |-> 1]]

\* StageModule.__create_mask: left_right_mask, as viewed [ws ** 2, ws ** 2].
create_left_right_mask(window_size, shift_size) ==
    LET n    == window_size
        last == SliceFromEnd(shift_size, n)
        rest == SliceToEnd(shift_size, n)
    IN  [i \in 0..(n * n - 1) |-> [j \in 0..(n * n - 1) |->
            LET a == Unravel(Ravel(<<i, j>>, <<n * n, n * n>>), <<n, n, n, n>>)
            IN  IF \/ (a[2] \in last /\ a[4] \in rest)
                   \/ (a[2] \in rest /\ a[4] \in last)
                THEN 0 ELSE 1]]

create_upper_lower_mask_one_sided(window_size, shift_size) ==
    LET n    == window_size * window_size
        last == SliceFromEnd(shift_size * window_size, n)
        rest == SliceToEnd(shift_size * window_size, n)
    IN  [i \in 0..(n - 1) |-> [j \in 0..(n - 1) |-> IF i \in last /\ j \in rest THEN 0 ELSE 1]]

\* StageModule.__create_mask: upper_lower_mask.
create_upper_lower_mask(window_size, shift_size) ==
    LET n    == window_size * window_size
        last == SliceFromEnd(shift_size * window_size, n)
        rest == SliceToEnd(shift_size * window_size, n)
    IN  [i \in 0..(n - 1) |-> [j \in 0..(n - 1) |->
            IF \/ (i \in last /\ j \in rest)
               \/ (i \in rest /\ j \in last)
            THEN 0 ELSE 1]]

\* The buffers registered when a stage and its blocks are constructed.
Buffers(window_size) ==
    [relative_indices |-> relative_distances(window_size),
     left_right_mask  |-> create_left_right_mask(window_size, ShiftSize(window_size)),
     upper_lower_mask |-> create_upper_lower_mask(window_size, ShiftSize(window_size))]

(***************************************************************************)
(* Swin v1: WindowAttention.forward, on elements.                          *)
(***************************************************************************)
InShape(m, c) == <<c.b, c.h, c.w, m.number_of_heads * m.d_k>>

SplitShape(m, c) ==
    <<c.b, c.h \div m.window_size, m.window_size, c.w \div m.window_size,
      m.window_size, m.number_of_heads, m.d_k>>

WindowsShape(m, c) ==
    <<c.b, m.number_of_heads, (c.h \div m.window_size) * (c.w \div m.window_size),
      m.window_size * m.window_size, m.d_k>>

Indices4(s) == {<<a, b, c, d>> : a \in 0..(s[1] - 1), b \in 0..(s[2] - 1), c \in 0..(s[3] - 1), d \in 0..(s[4] - 1)}

Indices5(s) == {<<a, b, c, d, e>> : a \in 0..(s[1] - 1), b \in 0..(s[2] - 1), c \in 0..(s[3] - 1), d \in 0..(s[4] - 1), e \in 0..(s[5] - 1)}

\* CyclicShift.forward: torch.roll(x, shifts=(d, d), dims=(1, 2))
CyclicShift(t, displacement, c) ==
    [i \in DOMAIN t |->
        t[<<i[1], RollSource(i[2], displacement, c.h), RollSource(i[3], displacement, c.w), i[4]>>]]

PartitionPermutationUnswapped == <<0, 5, 1, 2, 3, 4, 6>>
PartitionPermutation == <<0, 5, 1, 3, 2, 4, 6>>

\* lin(x).view(b, nw_h, ws, nw_w, ws, heads, d_k).permute(0, 5, 1, 3, 2, 4, 6)
\*       .contiguous().view(b, heads, nw_h * nw_w, ws * ws, d_k):
\* the index of lin(x) that index j of the result is taken from.
WindowPartitionSource(j, m, c) ==
    LET permuted == PermuteShape(SplitShape(m, c), PartitionPermutation)
        inSplit  == PermuteSource(ViewIndex(j, WindowsShape(m, c), permuted), PartitionPermutation)
    IN  ViewIndex(inSplit, SplitShape(m, c), InShape(m, c))

MergePermutationUnswapped == <<0, 2, 3, 4, 5, 1, 6>>
MergePermutation == <<0, 2, 4, 3, 5, 1, 6>>

\* x.view(b, heads, nw_h, nw_w, ws, ws, d_k).permute(0, 2, 4, 3, 5, 1, 6)
\*  .contiguous().view(b, h, w, -1): the index of x (the attention output, laid
\* out as query) that index i of the result is taken from.
WindowMergeSource(i, m, c) ==
    LET unmerged == <<c.b, m.number_of_heads, c.h \div m.window_size, c.w \div m.window_size,
                      m.window_size, m.window_size, m.d_k>>
        permuted == PermuteShape(unmerged, MergePermutation)
        inSplit  == PermuteSource(ViewIndex(i, InShape(m, c), permuted), MergePermutation)
    IN  ViewIndex(inSplit, unmerged, WindowsShape(m, c))

ScoreIndices(m, c) ==
    LET s == WindowsShape(m, c)
    IN  {<<n, hd, win, i, j>> : n \in 0..(s[1] - 1), hd \in 0..(s[2] - 1), win \in 0..(s[3] - 1),
                                i \in 0..(s[4] - 1), j \in 0..(s[4] - 1)}

\* The token (batch element, row, column) an index of x belongs to.
Token(i) == <<i[1], i[2], i[3]>>

\* scores = matmul(query, key.transpose(-2, -1)) / sqrt(d_k)
\*          + pos_embedding[:, :, relative_indices[:, :, 0], relative_indices[:, :, 1]]
\* Entry [n, hd, win, i, j] is the product of row i of query and row j of key
\* of the same n, hd and win; the bias is the entry of the table of head hd
\* that the two relative indices of (i, j) select.
AttentionScores(q, rel, m, c) ==
    [k \in ScoreIndices(m, c) |->
        [q      |-> Token(q[<<k[1], k[2], k[3], k[4], 0>>]),
         k      |-> Token(q[<<k[1], k[2], k[3], k[5], 0>>]),
         bias   |-> <<k[2], PyIndex(rel[k[4]][k[5]][1], 2 * m.window_size - 1),
                            PyIndex(rel[k[4]][k[5]][2], 2 * m.window_size - 1)>>,
         masked |-> FALSE]]

masked_fill_into_mask(sc, wins, mask) ==
    [self |-> sc,
     mask |-> [i \in DOMAIN mask |-> [j \in DOMAIN mask[i] |-> IF mask[i][j] = 0 THEN -1 ELSE mask[i][j]]]]

\* scores[:, :, wins].masked_fill_(mask == 0, -1e9): in place on scores; what
\* the call leaves in its two operands.
masked_fill_(sc, wins, mask) ==
    [self |-> [k \in DOMAIN sc |->
                  IF k[3] \in wins /\ mask[k[4]][k[5]] = 0
                  THEN [sc[k] EXCEPT !.masked = TRUE]
                  ELSE sc[k]],
     mask |-> mask]

(***************************************************************************)
(* The forward machine.                                                    *)
(***************************************************************************)
FactorChoices == {<<4, 2, 2, 2>>, <<2, 2, 2, 2>>}
LayerChoices == {<<2, 2, 2, 2>>, <<2, 2, 4, 2>>}
ChannelChoices == {1, 3}

SwinConfigs ==
    {[in_channels |-> 1, num_classes |-> 10, in_features |-> 96,
      window_size |-> ws, heads |-> <<3, 6, 12, 24>>, ffn_feature_ratio |-> 4,
      num_layers |-> nl, downscaling_factors |-> df] :
        ws \in 1..MaxWindow, nl \in LayerChoices, df \in FactorChoices}

Inputs == {<<b, c, h, w>> : b \in 1..MaxBatch, c \in ChannelChoices, h \in Sides, w \in Sides}

\* The arguments of the two training cells of the Swin notebooks.
NotebookV1Config ==
    [in_channels |-> 1, num_classes |-> 10, in_features |-> 96, window_size |-> 3,
     heads |-> <<3, 6, 12, 24>>, ffn_feature_ratio |-> 4,
     num_layers |-> <<2, 2, 2, 2>>, downscaling_factors |-> <<4, 2, 2, 2>>]

NotebookV2Config == [NotebookV1Config EXCEPT !.num_layers = <<2, 2, 4, 2>>]

PatchChoices == {16, 32, 48}
DepthChoices == {2, 6}

\* make_model's arguments; the training cell of the notebook uses
\* img_size 96, patch_size 16, num_channels 1 and N 2.
ViTConfigs ==
    {[img_size |-> s, patch_size |-> p, num_channels |-> c, d_model |-> 512,
      num_classes |-> 10, h |-> 8, N |-> n, d_ff |-> 2048] :
        s \in Sides, p \in PatchChoices, c \in ChannelChoices, n \in DepthChoices}

\* MultiHeadAttention.__init__: assert d_model % h == 0
ViTConstructible(c) == c.d_model % c.h = 0

ForwardAssignsInWindowAttention(class) == IF class \in {"MultiHeadAttention", "WindowAttention"} THEN {"attn"} ELSE {}
\* The attributes of self that the forward method of a class assigns:
\* MultiHeadAttention.forward binds self.attn, no other forward assigns to self.
ForwardAssigns(class) == IF class = "MultiHeadAttention" THEN {"attn"} ELSE {}

\* The attributes assigned when the forward methods of these classes run.
Called(classes) == UNION {{<<class, a>> : a \in ForwardAssigns(class)} : class \in classes}

\* MultiHeadAttention.__init__: self.attn = None
None == [err |-> "None", shape |-> <<>>]

\* An expression: the application of an operation to expressions.
App(op, args) == [op |-> op, args |-> args]

\* The block machine is not running.
BlockIdle ==
    /\ bmod = [version |-> "v1", window_size |-> 1, layers |-> 0]
    /\ bargs = [shift_size |-> 0, mask |-> App("None", <<>>), shifted |-> FALSE]
    /\ bx = App("x", <<>>)
    /\ bval = App("x", <<>>)
    /\ bi = 0
    /\ bcalls = <<>>
    /\ breads = <<>>
    /\ bpair = 0
    /\ bpc = "idle"

\* No WindowAttention of Swin v2 is under study.
TauIdle ==
    /\ tau = <<>>
    /\ divisor = [err |-> "unset", value |-> <<>>]

\* A number, as a fraction.
Frac(num, den) == [num |-> num, den |-> den]

\* No DropPath module is under study.
DropIdle ==
    /\ dmod = [drop_prob |-> Frac(0, 1), scale_by_keep |-> TRUE, training |-> FALSE]
    /\ dinp = <<>>
    /\ drand = <<>>
    /\ dout = <<>>
    /\ dpc = "idle"

\* No ViT embedding is under study.
TokenIdle ==
    /\ cmod = [img_size |-> 1, patch_size |-> 1, N |-> 0]
    /\ cinp = 0
    /\ cseq = <<>>
    /\ cfed = <<>>
    /\ cpc = "idle"

\* The training cell is not running.
TrainIdle ==
    /\ loaders = [train |-> 0, val |-> 0]
    /\ epoch = 0
    /\ batch = 0
    /\ tpc = "idle"
    /\ training = TRUE
    /\ params = 0
    /\ grads = "None"
    /\ printed = 0
    /\ saved = <<>>
    /\ visits = <<>>

\* The patch merging machine is not running.
MergeIdle ==
    /\ pmod = [in_channels |-> 1, out_channels |-> 1, downscaling_factor |-> 1]
    /\ pinp = <<>>
    /\ px = <<>>
    /\ pout = [shape |-> Ok(<<>>), from |-> <<>>]
    /\ ppc = "idle"

\* The window machine is not running.
NoCall == [b |-> 0, h |-> 0, w |-> 0, training |-> FALSE]

WindowIdle ==
    /\ wmod = [window_size |-> 1, shift_size |-> 0, number_of_heads |-> 1, d_k |-> 1]
    /\ bufs = Buffers(1)
    /\ winp = NoCall
    /\ wx = <<>>
    /\ query = <<>>
    /\ scores = <<>>
    /\ wpc = "idle"

InitForward ==
    /\ arch \in {"swin1", "swin2", "vit"}
    /\ IF arch = "vit"
       THEN /\ cfg \in {c \in ViTConfigs : ViTConstructible(c)}
            /\ input \in {<<b, cfg.num_channels, cfg.img_size, cfg.img_size>> : b \in 1..MaxBatch}
            /\ pc = "vit_embed"
       ELSE /\ cfg \in {c \in SwinConfigs : Constructible(c)}
            /\ input \in Inputs
            /\ pc = "stage_merge"
    /\ x = Ok(input)
    /\ stage = 1
    /\ iter = 0
    /\ log = <<>>
    /\ attn = IF arch = "vit" THEN [k \in 1..cfg.N |-> None] ELSE <<>>
    /\ assigned = {}
    /\ WindowIdle
    /\ TrainIdle
    /\ MergeIdle
    /\ BlockIdle
    /\ TauIdle
    /\ DropIdle
    /\ TokenIdle

\* An exception leaves forward; otherwise forward goes on at next.
Goto(t, next) ==
    /\ x' = t
    /\ pc' = IF t.err # "none" THEN "raised" ELSE next

AfterPairsPerLayer(done) == IF done < cfg.num_layers[stage] THEN "layer_regular" ELSE "stage_permute"
\* The position after the body of the loop over zip(layers_regular, layers_shifted)
\* has run done pairs.
AfterPairs(done) == IF done < cfg.num_layers[stage] \div 2 THEN "layer_regular" ELSE "stage_permute"

\* StageModule.forward: x = self.patch_merging(x)
StagePatchMerging ==
    /\ pc = "stage_merge"
    /\ Goto(Merge(arch, x, cfg, stage), AfterPairs(0))
    /\ log' = Append(log, [op |-> "patch_merging", shift |-> 0])
    /\ assigned' = assigned \cup Called({"PatchMerging"})
    /\ UNCHANGED <<arch, cfg, input, stage, iter, attn, wvars, tvars, pvars, bvars, svars, dvars, cvars>>

\* StageModule.forward: x = layer_regular(x)
StageLayerRegular ==
    /\ pc = "layer_regular"
    /\ Goto(Block(arch, x, "None", cfg, stage, 0), "layer_shifted")
    /\ log' = Append(log, [op |-> "block", shift |-> 0])
    /\ assigned' = assigned \cup Called({"SwinBlock", "WindowAttention", "FeedForward", "DropPath"})
    /\ UNCHANGED <<arch, cfg, input, stage, iter, attn, wvars, tvars, pvars, bvars, svars, dvars, cvars>>

\* StageModule.forward: x = layer_shifted(x, (self.upper_lower_mask, self.left_right_mask))
StageLayerShifted ==
    /\ pc = "layer_shifted"
    /\ Goto(Block(arch, x, "pair", cfg, stage, ShiftSize(cfg.window_size)), AfterPairs(iter + 1))
    /\ iter' = iter + 1
    /\ log' = Append(log, [op |-> "block", shift |-> ShiftSize(cfg.window_size)])
    /\ assigned' = assigned \cup Called({"SwinBlock", "WindowAttention", "CyclicShift", "FeedForward", "DropPath"})
    /\ UNCHANGED <<arch, cfg, input, stage, attn, wvars, tvars, pvars, bvars, svars, dvars, cvars>>

\* StageModule.forward: return x.permute(0, 3, 1, 2); SwinTransformer.forward
\* goes on with the next stage or with the head.
StageReturn ==
    /\ pc = "stage_permute"
    /\ Goto(permute(x, <<0, 3, 1, 2>>), IF stage < 4 THEN "stage_merge" ELSE "mlp_head")
    /\ stage' = IF stage < 4 THEN stage + 1 ELSE stage
    /\ iter' = 0
    /\ log' = IF stage < 4 THEN <<>> ELSE log
    /\ UNCHANGED <<arch, cfg, input, attn, assigned, wvars, tvars, pvars, bvars, svars, dvars, cvars>>

\* SwinTransformer.forward: return self.mlp_head(x.mean(dim=[2, 3]))
ForwardReturn ==
    /\ pc = "mlp_head"
    /\ Goto(MlpHead(arch, x, cfg), "done")
    /\ assigned' = assigned \cup Called({"SwinTransformer"})
    /\ UNCHANGED <<arch, cfg, input, stage, iter, log, attn, wvars, tvars, pvars, bvars, svars, dvars, cvars>>

\* ViT.encode: self.embed(x), the nn.Sequential of PatchEmbedding and PositionalEmbedding.
ViTEmbed ==
    /\ pc = "vit_embed"
    /\ Goto(PositionalEmbedding(PatchEmbedding(x, cfg.patch_size, cfg.num_channels, cfg.d_model),
                                NumSteps(cfg.img_size, cfg.patch_size), cfg.d_model),
            IF cfg.N > 0 THEN "vit_layer" ELSE "vit_norm")
    /\ assigned' = assigned \cup Called({"PatchEmbedding", "PositionalEmbedding"})
    /\ UNCHANGED <<arch, cfg, input, stage, iter, log, attn, wvars, tvars, pvars, bvars, svars, dvars, cvars>>

\* Encoder.forward: x = layer(x, mask), for each of the N layers.
ViTEncoderLayer ==
    /\ pc = "vit_layer"
    /\ Goto(EncoderLayer(x, cfg), IF iter + 1 < cfg.N THEN "vit_layer" ELSE "vit_norm")
    /\ iter' = iter + 1
    /\ LET p_attn == MultiHeadAttentionAttn(LayerNorm(x, cfg.d_model), cfg.h, cfg.d_model)
       IN  attn' = IF p_attn.err = "none" THEN [attn EXCEPT ![iter + 1] = p_attn] ELSE attn
    /\ assigned' = assigned \cup Called({"EncoderLayer", "SublayerConnection", "MultiHeadAttention", "PositionwiseFeedForward"})
    /\ UNCHANGED <<arch, cfg, input, stage, log, wvars, tvars, pvars, bvars, svars, dvars, cvars>>

\* Encoder.forward: return self.norm(x)
ViTEncoderNorm ==
    /\ pc = "vit_norm"
    /\ Goto(LayerNorm(x, cfg.d_model), "vit_generator")
    /\ assigned' = assigned \cup Called({"Encoder"})
    /\ UNCHANGED <<arch, cfg, input, stage, iter, log, attn, wvars, tvars, pvars, bvars, svars, dvars, cvars>>

\* ViT.forward: return self.generator(self.encode(x)[:, 0])
ViTReturn ==
    /\ pc = "vit_generator"
    /\ Goto(Generator(x, cfg.d_model, cfg.num_classes), "done")
    /\ assigned' = assigned \cup Called({"ViT", "Generator"})
    /\ UNCHANGED <<arch, cfg, input, stage, iter, log, attn, wvars, tvars, pvars, bvars, svars, dvars, cvars>>

\* The next call of the same model, after the last has returned or raised.
ForwardCall ==
    /\ pc \in {"done", "raised"}
    /\ input' \in IF arch = "vit"
                  THEN {<<b, cfg.num_channels, cfg.img_size, cfg.img_size>> : b \in 1..MaxBatch}
                  ELSE Inputs
    /\ x' = Ok(input')
    /\ pc' = IF arch = "vit" THEN "vit_embed" ELSE "stage_merge"
    /\ stage' = 1
    /\ iter' = 0
    /\ log' = <<>>
    /\ UNCHANGED <<arch, cfg, attn, assigned, wvars, tvars, pvars, bvars, svars, dvars, cvars>>

\* The steps of a call of forward.
ForwardBody ==
    \/ StagePatchMerging
    \/ StageLayerRegular
    \/ StageLayerShifted
    \/ StageReturn
    \/ ForwardReturn
    \/ ViTEmbed
    \/ ViTEncoderLayer
    \/ ViTEncoderNorm
    \/ ViTReturn

NextForward ==
    \/ ForwardCall
    \/ ForwardBody

SpecForward == InitForward /\ [][NextForward]_vars

(***************************************************************************)
(* The constructor machine: a model class is called with arguments that    *)
(* its asserts may reject, then forward is called once on what was built.  *)
(***************************************************************************)
FeatureChoices == {96, 128}
HeadsChoices == {<<3, 6, 12, 24>>, <<4, 8, 16, 32>>}
OddLayerChoices == {<<2, 2, 3, 2>>}
ViTHeadChoices == {8, 7}

\* The arguments SwinTransformer may be constructed with: those of the
\* swin_tiny and swin_base functions, in every combination.
SwinArguments ==
    {[c EXCEPT !.in_features = f, !.heads = hd, !.num_layers = nl] :
        c \in SwinConfigs, f \in FeatureChoices, hd \in HeadsChoices,
        nl \in LayerChoices \cup OddLayerChoices}

\* The arguments make_model may be called with.
ViTArguments == {[c EXCEPT !.h = hd] : c \in ViTConfigs, hd \in ViTHeadChoices}

SquareInputs == {<<b, c, s, s>> : b \in 1..MaxBatch, c \in ChannelChoices, s \in Sides}

InitConstruct ==
    /\ arch \in {"swin1", "swin2", "vit"}
    /\ IF arch = "vit"
       THEN /\ cfg \in ViTArguments
            /\ input \in {<<b, cfg.num_channels, cfg.img_size, cfg.img_size>> : b \in 1..MaxBatch}
       ELSE /\ cfg \in SwinArguments
            /\ input \in SquareInputs
    /\ pc = "construct"
    /\ x = Ok(input)
    /\ stage = 1
    /\ iter = 0
    /\ log = <<>>
    /\ attn = IF arch = "vit" THEN [k \in 1..cfg.N |-> None] ELSE <<>>
    /\ assigned = {}
    /\ WindowIdle
    /\ TrainIdle
    /\ MergeIdle
    /\ BlockIdle
    /\ TauIdle
    /\ DropIdle
    /\ TokenIdle

\* SwinTransformer(...) or make_model(...): an assert that fails raises
\* AssertionError out of the constructor; otherwise the model is built and
\* forward is called on the input.
Construct ==
    /\ pc = "construct"
    /\ IF arch = "vit"
       THEN Goto(IF ViTConstructible(cfg) THEN x ELSE Raise("AssertionError"), "vit_embed")
       ELSE Goto(IF Constructible(cfg) THEN x ELSE Raise("AssertionError"), "stage_merge")
    /\ UNCHANGED <<arch, cfg, input, stage, iter, log, attn, assigned, wvars, tvars, pvars, bvars, svars, dvars, cvars>>

NextConstruct ==
    \/ Construct
    \/ ForwardBody

SpecConstruct == InitConstruct /\ [][NextConstruct]_vars

(***************************************************************************)
(* The window machine: one WindowAttention module of Swin v1, constructed  *)
(* in a stage, and the calls of its forward.                               *)
(***************************************************************************)
HeadChoices == {2}
DkChoices == {1, 2}
WBatchChoices == {2}

WindowModules ==
    {[window_size |-> ws, shift_size |-> ss, number_of_heads |-> hd, d_k |-> dk] :
        ws \in 1..MaxWindowSize, ss \in {0, 1, 2}, hd \in HeadChoices, dk \in DkChoices}

\* StageModule.__init__ builds its blocks with shift_size 0 (layers_regular)
\* or window_size // 2 (layers_shifted).
BuiltByStage(m) == m.shift_size \in {0, ShiftSize(m.window_size)}

\* The inputs a call may get: h and w multiples of window_size.
WindowInputs(m) ==
    {[b |-> b, h |-> nh * m.window_size, w |-> nw * m.window_size, training |-> tr] :
        b \in WBatchChoices, nh \in 1..MaxWindowsPerSide, nw \in 1..MaxWindowsPerSide,
        tr \in BOOLEAN}

ForwardIdle ==
    /\ arch = "swin1"
    /\ cfg = NotebookV1Config
    /\ input = <<>>
    /\ x = Ok(<<>>)
    /\ pc = "idle"
    /\ stage = 1
    /\ iter = 0
    /\ log = <<>>
    /\ attn = <<>>
    /\ assigned = {}

InitWindow ==
    /\ ForwardIdle
    /\ TrainIdle
    /\ MergeIdle
    /\ BlockIdle
    /\ TauIdle
    /\ DropIdle
    /\ TokenIdle
    /\ wmod \in {m \in WindowModules : BuiltByStage(m)}
    /\ bufs = Buffers(wmod.window_size)
    /\ winp = NoCall
    /\ wx = <<>>
    /\ query = <<>>
    /\ scores = <<>>
    /\ wpc = "idle"

\* A call of forward with a new x: every element of x is named by its index.
WACall ==
    /\ wpc = "idle"
    /\ winp' \in WindowInputs(wmod)
    /\ wx' = [i \in Indices4(InShape(wmod, winp')) |-> i]
    /\ query' = <<>>
    /\ scores' = <<>>
    /\ wpc' = "shift"
    /\ UNCHANGED <<wmod, bufs, fvars, tvars, pvars, bvars, svars, dvars, cvars>>

\* if self.shift_size: x = self.cyclic_shift(x)
WACyclicShift ==
    /\ wpc = "shift"
    /\ wx' = IF wmod.shift_size # 0 THEN CyclicShift(wx, -wmod.shift_size, winp) ELSE wx
    /\ wpc' = "partition"
    /\ UNCHANGED <<wmod, bufs, winp, query, scores, fvars, tvars, pvars, bvars, svars, dvars, cvars>>

\* query, key, value = [lin(x).view(...).permute(...).contiguous().view(...) ...]
WAPartition ==
    /\ wpc = "partition"
    /\ query' = [j \in Indices5(WindowsShape(wmod, winp)) |-> WindowPartitionSource(j, wmod, winp)]
    /\ wpc' = "scores"
    /\ UNCHANGED <<wmod, bufs, winp, wx, scores, fvars, tvars, pvars, bvars, svars, dvars, cvars>>

\* scores = torch.matmul(query, key.transpose(-2, -1)) / math.sqrt(self.d_k) + self.pos_embedding[...]
WAScores ==
    /\ wpc = "scores"
    /\ scores' = AttentionScores(query, bufs.relative_indices, wmod, winp)
    /\ wpc' = "mask"
    /\ UNCHANGED <<wmod, bufs, winp, wx, query, fvars, tvars, pvars, bvars, svars, dvars, cvars>>

\* if self.shift_size:
\*     scores[:, :, -nw_w:].masked_fill_(mask[0] == 0, -1e9)
\*     scores[:, :, nw_w - 1::nw_w].masked_fill_(mask[1] == 0, -1e9)
\* with mask = (upper_lower_mask, left_right_mask), as StageModule.forward passes it.
WAMask ==
    /\ wpc = "mask"
    /\ LET nw_w  == winp.w \div wmod.window_size
           nw    == (winp.h \div wmod.window_size) * nw_w
           first == masked_fill_(scores, SliceFromEnd(nw_w, nw), bufs.upper_lower_mask)
           secnd == masked_fill_(first.self, SliceStep(nw_w - 1, nw_w, nw), bufs.left_right_mask)
       IN  IF wmod.shift_size # 0
           THEN /\ scores' = secnd.self
                /\ bufs' = [bufs EXCEPT !.upper_lower_mask = first.mask,
                                        !.left_right_mask = secnd.mask]
           ELSE UNCHANGED <<scores, bufs>>
    /\ wpc' = "merge"
    /\ UNCHANGED <<wmod, winp, wx, query, fvars, tvars, pvars, bvars, svars, dvars, cvars>>

\* x = torch.matmul(p_attn, value); x = x.view(...).permute(...).contiguous().view(b, h, w, -1)
\* Row i of the product is the output of the token of row i of query.
WAMerge ==
    /\ wpc = "merge"
    /\ wx' = [i \in DOMAIN wx |-> wx[query[WindowMergeSource(i, wmod, winp)]]]
    /\ wpc' = "back"
    /\ UNCHANGED <<wmod, bufs, winp, query, scores, fvars, tvars, pvars, bvars, svars, dvars, cvars>>

\* if self.shift_size: x = self.cyclic_back_shift(x); return x
WAReturn ==
    /\ wpc = "back"
    /\ wx' = IF wmod.shift_size # 0 THEN CyclicShift(wx, wmod.shift_size, winp) ELSE wx
    /\ wpc' = "idle"
    /\ UNCHANGED <<wmod, bufs, winp, query, scores, fvars, tvars, pvars, bvars, svars, dvars, cvars>>

NextWindow ==
    \/ WACall
    \/ WACyclicShift
    \/ WAPartition
    \/ WAScores
    \/ WAMask
    \/ WAMerge
    \/ WAReturn

SpecWindow == InitWindow /\ [][NextWindow]_vars

(***************************************************************************)
(* The training cell of a notebook and the cell after it.                  *)
(***************************************************************************)
max_epochs == 50
batch_size == 128
img_size == 96

\* The model the cell before the training cell builds.
NotebookViTConfig ==
    [img_size |-> img_size, patch_size |-> 16, num_channels |-> 1, d_model |-> 512,
     num_classes |-> 10, h |-> 8, N |-> 2, d_ff |-> 2048]

NotebookConfig(a) ==
    IF a = "vit" THEN NotebookViTConfig
    ELSE IF a = "swin2" THEN NotebookV2Config
    ELSE NotebookV1Config

\* A batch of the loaders: FashionMNIST resized to img_size, one channel.
BatchShape == <<batch_size, 1, img_size, img_size>>

\* The statements of the body of the loop over loader_train, and of the loop
\* over loader_val under torch.no_grad().
TrainBody == <<"forward", "loss", "zero_grad", "backward", "step", "metrics">>
ValBody == <<"forward", "loss", "metrics">>

BodyWithStepInValidation(tr) == IF tr THEN TrainBody ELSE <<"forward", "loss", "step", "metrics">>
\* Between model.train() and model.eval() the loop over loader_train runs,
\* after model.eval() the loop over loader_val.
Body(tr) == IF tr THEN TrainBody ELSE ValBody

\* The statement after stmt in the body; "next" is the head of the loop.
After(stmt, tr) ==
    LET b == Body(tr)
        k == CHOOSE i \in 1..Len(b) : b[i] = stmt
    IN  IF k < Len(b) THEN b[k + 1] ELSE "next"

\* optim.step(): Adam updates the parameters that have a gradient.
optim_step(p, g) == IF g = "computed" THEN p + 1 ELSE p

InitTrain ==
    /\ arch \in {"swin1", "swin2", "vit"}
    /\ cfg = NotebookConfig(arch)
    /\ input = <<>>
    /\ x = Ok(<<>>)
    /\ pc = "idle"
    /\ stage = 1
    /\ iter = 0
    /\ log = <<>>
    /\ attn = IF arch = "vit" THEN [k \in 1..cfg.N |-> None] ELSE <<>>
    /\ assigned = {}
    /\ WindowIdle
    /\ MergeIdle
    /\ BlockIdle
    /\ TauIdle
    /\ DropIdle
    /\ TokenIdle
    /\ loaders \in {[train |-> nt, val |-> nv] : nt \in 1..MaxTrainBatches, nv \in 1..MaxValBatches}
    /\ epoch = 0
    /\ batch = 0
    /\ tpc = "idle"
    /\ training = TRUE
    /\ params = 0
    /\ grads = "None"
    /\ printed = 0
    /\ saved = <<>>
    /\ visits = <<>>

\* The training cell is run.
RunCell ==
    /\ tpc = "idle"
    /\ epoch' = 0
    /\ tpc' = "epoch"
    /\ UNCHANGED <<visits, loaders, batch, training, params, grads, printed, saved, fvars, wvars, pvars, bvars, svars, dvars, cvars>>

EpochsLeftButOne(e) == e + 1 < max_epochs
\* for epoch in range(max_epochs): whether the loop has a next epoch.
EpochsLeft(e) == e < max_epochs

\* for epoch in range(max_epochs): model.train(); after the loop, the next cell.
EpochLoop ==
    /\ tpc = "epoch"
    /\ IF EpochsLeft(epoch)
       THEN /\ training' = TRUE
            /\ batch' = 0
            /\ visits' = <<>>
            /\ tpc' = "next"
       ELSE /\ tpc' = "save"
            /\ UNCHANGED <<training, batch, visits>>
    /\ UNCHANGED <<loaders, epoch, params, grads, printed, saved, fvars, wvars, pvars, bvars, svars, dvars, cvars>>

\* for i, (x, y) in enumerate(loader_train) / for x, y in loader_val
LoaderTrainOnly(tr) == loaders.train
\* The number of batches of the loader the loop of this phase iterates.
Loader(tr) == IF tr THEN loaders.train ELSE loaders.val

NextBatch ==
    /\ tpc = "next"
    /\ IF batch < Loader(training)
       THEN /\ visits' = Append(visits, [train |-> training, batch |-> batch])
            /\ tpc' = Body(training)[1]
       ELSE /\ tpc' = IF training THEN "eval" ELSE "print"
            /\ UNCHANGED visits
    /\ UNCHANGED <<loaders, epoch, batch, training, params, grads, printed, saved, fvars, wvars, pvars, bvars, svars, dvars, cvars>>

\* y_pred = model(x): the call; the forward machine runs it.
Forward ==
    /\ tpc = "forward"
    /\ input' = BatchShape
    /\ x' = Ok(input')
    /\ pc' = IF arch = "vit" THEN "vit_embed" ELSE "stage_merge"
    /\ stage' = 1
    /\ iter' = 0
    /\ log' = <<>>
    /\ tpc' = "in_forward"
    /\ UNCHANGED <<arch, cfg, attn, assigned, wvars, pvars, bvars, svars, dvars, cvars>>
    /\ UNCHANGED <<visits, loaders, epoch, batch, training, params, grads, printed, saved>>

\* y_pred = model(x): forward has returned, or its exception ends the cell.
Returned ==
    /\ tpc = "in_forward"
    /\ pc \in {"done", "raised"}
    /\ tpc' = IF pc = "raised" THEN "raised" ELSE After("forward", training)
    /\ UNCHANGED <<visits, loaders, epoch, batch, training, params, grads, printed, saved, fvars, wvars, pvars, bvars, svars, dvars, cvars>>

\* l = loss(y_pred, y, reduction="sum")
Loss ==
    /\ tpc = "loss"
    /\ tpc' = After("loss", training)
    /\ UNCHANGED <<visits, loaders, epoch, batch, training, params, grads, printed, saved, fvars, wvars, pvars, bvars, svars, dvars, cvars>>

\* optim.zero_grad()
ZeroGrad ==
    /\ tpc = "zero_grad"
    /\ grads' = "cleared"
    /\ tpc' = After("zero_grad", training)
    /\ UNCHANGED <<visits, loaders, epoch, batch, training, params, printed, saved, fvars, wvars, pvars, bvars, svars, dvars, cvars>>

\* l.backward(): under torch.no_grad() l has no grad_fn and backward raises.
Backward ==
    /\ tpc = "backward"
    /\ IF training
       THEN /\ grads' = "computed"
            /\ tpc' = After("backward", training)
       ELSE /\ tpc' = "raised"
            /\ UNCHANGED grads
    /\ UNCHANGED <<visits, loaders, epoch, batch, training, params, printed, saved, fvars, wvars, pvars, bvars, svars, dvars, cvars>>

\* optim.step()
Step ==
    /\ tpc = "step"
    /\ params' = optim_step(params, grads)
    /\ tpc' = After("step", training)
    /\ UNCHANGED <<visits, loaders, epoch, batch, training, grads, printed, saved, fvars, wvars, pvars, bvars, svars, dvars, cvars>>

\* The sums of loss, count and correct predictions; the batch is done.
Metrics ==
    /\ tpc = "metrics"
    /\ batch' = batch + 1
    /\ tpc' = After("metrics", training)
    /\ UNCHANGED <<visits, loaders, epoch, training, params, grads, printed, saved, fvars, wvars, pvars, bvars, svars, dvars, cvars>>

\* model.eval(), then the loop over loader_val under torch.no_grad()
Eval ==
    /\ tpc = "eval"
    /\ training' = FALSE
    /\ batch' = 0
    /\ tpc' = "next"
    /\ UNCHANGED <<visits, loaders, epoch, params, grads, printed, saved, fvars, wvars, pvars, bvars, svars, dvars, cvars>>

\* print(f"Epoch: {epoch + 1:03d}, ..."), the last statement of the epoch.
PrintEpoch ==
    /\ tpc = "print"
    /\ printed' = printed + 1
    /\ epoch' = epoch + 1
    /\ tpc' = "epoch"
    /\ UNCHANGED <<visits, loaders, batch, training, params, grads, saved, fvars, wvars, pvars, bvars, svars, dvars, cvars>>

\* torch.save(model.state_dict(), "model.pth")
Save ==
    /\ tpc = "save"
    /\ saved' = Append(saved, params)
    /\ tpc' = "end"
    /\ UNCHANGED <<visits, loaders, epoch, batch, training, params, grads, printed, fvars, wvars, pvars, bvars, svars, dvars, cvars>>

NextTrain ==
    \/ RunCell
    \/ EpochLoop
    \/ NextBatch
    \/ Forward
    \/ ForwardBody
    \/ Returned
    \/ Loss
    \/ ZeroGrad
    \/ Backward
    \/ Step
    \/ Metrics
    \/ Eval
    \/ PrintEpoch
    \/ Save

SpecTrain == InitTrain /\ [][NextTrain]_vars

\* The statements of the training cell other than those inside model(x).
CellSteps ==
    \/ EpochLoop
    \/ NextBatch
    \/ Forward
    \/ Returned
    \/ Loss
    \/ ZeroGrad
    \/ Backward
    \/ Step
    \/ Metrics
    \/ Eval
    \/ PrintEpoch

ForwardPositions ==
    {"stage_merge", "layer_regular", "layer_shifted", "stage_permute", "mlp_head",
     "vit_embed", "vit_layer", "vit_norm", "vit_generator", "done", "raised"}

\* model(x) is running: forward is at a position where a step of ForwardBody
\* is enabled.  ENABLED ForwardProgress is ENABLED ForwardBody, decided from
\* the position alone, without computing the tensor the step produces; weak
\* fairness of it says that forward does not stand still while it can step.
ForwardProgress ==
    /\ tpc = "in_forward"
    /\ pc \notin {"done", "raised"}
    /\ pc' \in ForwardPositions
    /\ iter' \in {0, iter, iter + 1}
    /\ <<pc', iter'>> # <<pc, iter>>
    /\ UNCHANGED <<arch, cfg, input, x, stage, log, attn, assigned, wvars, tvars, pvars, bvars, svars, dvars, cvars>>

\* Once the cell runs, the interpreter executes statement after statement
\* until the cell ends or an exception leaves it; nothing in the cell waits.
SpecTrainFair == SpecTrain /\ WF_vars(CellSteps) /\ WF_vars(ForwardProgress)

(***************************************************************************)
(* The patch merging machine: PatchMerging.forward of Swin v1 on elements. *)
(***************************************************************************)
\* The shape of nn.Unfold(kernel_size=f, stride=f)(x) for x of shape s: [B, C * f * f, L].
UnfoldShape(s, f) == <<s[1], s[2] * f * f, (((s[3] - f) \div f) + 1) * (((s[4] - f) \div f) + 1)>>

\* nn.Unfold(kernel_size=f, stride=f)(x)[n, k, l] is x[UnfoldSource(<<n, k, l>>, s, f)]:
\* block l in row-major order over the blocks, k = (channel * f + row in block) * f + column in block.
UnfoldSource(j, s, f) ==
    LET across == ((s[4] - f) \div f) + 1
    IN  <<j[1], j[2] \div (f * f), ((j[3] \div across) * f) + ((j[2] % (f * f)) \div f),
          ((j[3] % across) * f) + (j[2] % f)>>

PatchMergePermutationTransposed == <<0, 3, 2, 1>>
PatchMergePermutation == <<0, 2, 3, 1>>

\* self.patch_merge(x).view(b, -1, new_h, new_w).permute(0, 2, 3, 1): the index
\* of x that index i of the result is taken from; merged is the shape of the result.
PatchMergeSource(i, s, f, merged) ==
    LET inView == PermuteSource(i, PatchMergePermutation)
        viewed == [d \in 1..4 |-> merged[CHOOSE k \in 1..4 : PatchMergePermutation[k] + 1 = d]]
    IN  UnfoldSource(ViewIndex(inView, viewed, UnfoldShape(s, f)), s, f)

InChannelChoices == {1, 2}
OutChannelChoices == {2, 5}

PatchMergingModules ==
    {[in_channels |-> c, out_channels |-> o, downscaling_factor |-> f] :
        c \in InChannelChoices, o \in OutChannelChoices, f \in 1..MaxFactor}

\* The inputs of a call: in_channels channels, any height and width.
MergeInputs(m) == {<<b, m.in_channels, h, w>> : b \in 1..MaxBatch, h \in 1..MaxMergeSide, w \in 1..MaxMergeSide}

InitMerge ==
    /\ ForwardIdle
    /\ WindowIdle
    /\ TrainIdle
    /\ BlockIdle
    /\ TauIdle
    /\ DropIdle
    /\ TokenIdle
    /\ pmod \in PatchMergingModules
    /\ pinp = <<>>
    /\ px = <<>>
    /\ pout = [shape |-> Ok(<<>>), from |-> <<>>]
    /\ ppc = "idle"

\* A call of forward with a new x.
PMCall ==
    /\ ppc \in {"idle", "done", "raised"}
    /\ pinp' \in MergeInputs(pmod)
    /\ px' = <<>>
    /\ pout' = [shape |-> Ok(<<>>), from |-> <<>>]
    /\ ppc' = "merge"
    /\ UNCHANGED <<pmod, fvars, wvars, tvars, bvars, svars, dvars, cvars>>

\* x = self.patch_merge(x).view(b, -1, new_h, new_w).permute(0, 2, 3, 1)
PMMerge ==
    /\ ppc = "merge"
    /\ LET merged == patch_merge(Ok(pinp), pmod.downscaling_factor)
       IN  IF merged.err # "none"
           THEN /\ pout' = [pout EXCEPT !.shape = merged]
                /\ ppc' = "raised"
                /\ UNCHANGED px
           ELSE /\ px' = [i \in Indices4(merged.shape) |->
                             PatchMergeSource(i, pinp, pmod.downscaling_factor, merged.shape)]
                /\ ppc' = "linear"
                /\ UNCHANGED pout
    /\ UNCHANGED <<pmod, pinp, fvars, wvars, tvars, bvars, svars, dvars, cvars>>

\* return self.linear(x): every feature of the token at [n, i, j] is computed
\* from all of x[n, i, j, :].
PMLinear ==
    /\ ppc = "linear"
    /\ LET f      == pmod.downscaling_factor
           merged == patch_merge(Ok(pinp), f)
           result == Linear(merged, pmod.in_channels * f * f, pmod.out_channels)
       IN  /\ pout' = [shape |-> result,
                       from  |-> [tok \in {Token(i) : i \in DOMAIN px} |->
                                     {px[i] : i \in {k \in DOMAIN px : Token(k) = tok}}]]
           /\ ppc' = IF result.err # "none" THEN "raised" ELSE "done"
    /\ UNCHANGED <<pmod, pinp, px, fvars, wvars, tvars, bvars, svars, dvars, cvars>>

NextMerge ==
    \/ PMCall
    \/ PMMerge
    \/ PMLinear

SpecMerge == InitMerge /\ [][NextMerge]_vars

(***************************************************************************)
(* The block machine: the loop of StageModule.forward over the pairs of    *)
(* blocks, and the module calls of SwinBlock.forward in the order Python   *)
(* evaluates them.  A value is an expression over the block's argument x.  *)
(***************************************************************************)
MaxHeads == 3
BlockLayerChoices == {2, 4}

\* forward's argument x, and the two values a mask argument may have.
ArgX == App("x", <<>>)
NoMask == App("None", <<>>)
MaskPair == App("(upper_lower_mask, left_right_mask)", <<>>)

Exception(e) == App(e, <<>>)

\* SwinBlock.forward of Swin v1, innermost call first:
\*   x = x + self.drop_path(self.attention(self.norm1(x), mask))
\*   return x + self.drop_path(self.feed_forward(self.norm2(x)))
SwinBlockForward ==
    <<"norm1", "attention", "drop_path", "add", "norm2", "feed_forward", "drop_path", "add">>

\* SwinBlock.forward of Swin v2, innermost call first:
\*   x = x + self.drop_path(self.norm1(self.attention(x), mask))
\*   return x + self.drop_path(self.norm2(self.feed_forward(x)))
SwinBlockV2Forward ==
    <<"attention", "norm1", "drop_path", "add", "feed_forward", "norm2", "drop_path", "add">>

BlockForwardPostNorm(version) == SwinBlockV2Forward
\* The calls of SwinBlock.forward of a notebook.
BlockForward(version) == IF version = "v1" THEN SwinBlockForward ELSE SwinBlockV2Forward

\* The arguments a call is given after its first: v1 passes mask to
\* self.attention, v2 passes it to self.norm1.
ExtraArgs(version, module, mask) ==
    IF (version = "v1" /\ module = "attention") \/ (version = "v2" /\ module = "norm1")
    THEN <<mask>>
    ELSE <<>>

\* nn.LayerNorm.forward(input) takes one argument.
LayerNormForward(name, args) ==
    IF Len(args) # 1 THEN Exception("TypeError") ELSE App(name, args)

\* WindowAttention.forward(x, mask=None): the mask it works with.
ReceivedMask(args) == IF Len(args) > 1 THEN args[2] ELSE NoMask

\* WindowAttention.forward: the reads mask[0] and mask[1], under
\* if self.shift_size.  In v2 line 187 has raised before.
MaskReads(version, shift_size, args) ==
    IF version = "v1" /\ shift_size # 0
    THEN <<ReceivedMask(args), ReceivedMask(args)>>
    ELSE <<>>

\* WindowAttention.forward.  In v2 torch.maximum(Tensor, 1e-6) raises
\* TypeError; in v1 mask[0] raises TypeError when mask is None.
WindowAttentionForward(version, shift_size, args) ==
    IF version = "v2" THEN Exception("TypeError")
    ELSE IF shift_size # 0 /\ ReceivedMask(args) = NoMask THEN Exception("TypeError")
    ELSE App("attention", <<args[1], ReceivedMask(args)>>)

BlockStages ==
    {[version |-> v, window_size |-> ws, layers |-> n] :
        v \in {"v1", "v2"}, ws \in 1..MaxWindowSize, n \in BlockLayerChoices}

InitBlock ==
    /\ bmod \in BlockStages
    /\ bargs = [shift_size |-> 0, mask |-> NoMask, shifted |-> FALSE]
    /\ bx = ArgX
    /\ bval = ArgX
    /\ bi = 0
    /\ bcalls = <<>>
    /\ breads = <<>>
    /\ bpair = 0
    /\ bpc = IF bpair < bmod.layers \div 2 THEN "layer_regular" ELSE "done"
    /\ ForwardIdle
    /\ WindowIdle
    /\ TrainIdle
    /\ MergeIdle
    /\ TauIdle
    /\ DropIdle
    /\ TokenIdle

\* A block's forward is entered with these arguments.
EnterBlock(shift_size, mask, shifted) ==
    /\ bargs' = [shift_size |-> shift_size, mask |-> mask, shifted |-> shifted]
    /\ bx' = ArgX
    /\ bval' = ArgX
    /\ bi' = 1
    /\ bcalls' = <<>>
    /\ breads' = <<>>
    /\ bpc' = "block"

\* StageModule.forward: x = layer_regular(x)
StageCallsRegular ==
    /\ bpc = "layer_regular"
    /\ EnterBlock(0, NoMask, FALSE)
    /\ UNCHANGED <<bmod, bpair, fvars, wvars, tvars, pvars, svars, dvars, cvars>>

\* StageModule.forward: x = layer_shifted(x, (self.upper_lower_mask, self.left_right_mask))
StageCallsShifted ==
    /\ bpc = "layer_shifted"
    /\ EnterBlock(ShiftSize(bmod.window_size), MaskPair, TRUE)
    /\ UNCHANGED <<bmod, bpair, fvars, wvars, tvars, pvars, svars, dvars, cvars>>

\* A call of the last block of layers_shifted from outside the loop of the
\* stage, once that loop has ended, with the arguments the stage gives it:
\* stage.layers_shifted[-1](x, (stage.upper_lower_mask, stage.left_right_mask))
ShiftedBlockCalled ==
    /\ bpc \in {"done", "raised"}
    /\ EnterBlock(ShiftSize(bmod.window_size), MaskPair, TRUE)
    /\ bpair' = bmod.layers \div 2 - 1
    /\ UNCHANGED <<bmod, fvars, wvars, tvars, pvars, svars, dvars, cvars>>

\* The call that comes next in SwinBlock.forward is a call of module.
At(module) ==
    /\ bpc = "block"
    /\ bi <= Len(BlockForward(bmod.version))
    /\ BlockForward(bmod.version)[bi] = module

\* The first argument of the call: the local x for the innermost call of a
\* statement, the value of the call inside it otherwise.
Operand == IF bi \in {1, 5} THEN bx ELSE bval

\* The call has returned result, or raised it.
CallReturns(module, args, result) ==
    /\ bcalls' = Append(bcalls, [module |-> module, args |-> args])
    /\ bval' = result
    /\ IF result.op = "TypeError"
       THEN bpc' = "raised" /\ bi' = bi
       ELSE bpc' = bpc /\ bi' = bi + 1

BNorm ==
    \E name \in {"norm1", "norm2"} :
        /\ At(name)
        /\ LET args == <<Operand>> \o ExtraArgs(bmod.version, name, bargs.mask)
           IN  CallReturns(name, args, LayerNormForward(name, args))
        /\ UNCHANGED <<bmod, bargs, bx, breads, bpair, fvars, wvars, tvars, pvars, svars, dvars, cvars>>

BAttention ==
    /\ At("attention")
    /\ LET args == <<Operand>> \o ExtraArgs(bmod.version, "attention", bargs.mask)
       IN  /\ CallReturns("attention", <<args[1], ReceivedMask(args)>>,
                      WindowAttentionForward(bmod.version, bargs.shift_size, args))
           /\ breads' = breads \o MaskReads(bmod.version, bargs.shift_size, args)
    /\ UNCHANGED <<bmod, bargs, bx, bpair, fvars, wvars, tvars, pvars, svars, dvars, cvars>>

BFeedForward ==
    /\ At("feed_forward")
    /\ CallReturns("feed_forward", <<Operand>>, App("feed_forward", <<Operand>>))
    /\ UNCHANGED <<bmod, bargs, bx, breads, bpair, fvars, wvars, tvars, pvars, svars, dvars, cvars>>

BDropPath ==
    /\ At("drop_path")
    /\ CallReturns("drop_path", <<Operand>>, App("drop_path", <<Operand>>))
    /\ UNCHANGED <<bmod, bargs, bx, breads, bpair, fvars, wvars, tvars, pvars, svars, dvars, cvars>>

\* x + <the value of the calls>: the residual connection, assigned to x or returned.
BAdd ==
    /\ At("add")
    /\ bx' = App("add", <<bx, bval>>)
    /\ bval' = bx'
    /\ bi' = bi + 1
    /\ UNCHANGED <<bmod, bargs, bcalls, breads, bpair, bpc, fvars, wvars, tvars, pvars, svars, dvars, cvars>>

\* SwinBlock.forward returns into the loop of StageModule.forward.
BReturn ==
    /\ bpc = "block"
    /\ bi = Len(BlockForward(bmod.version)) + 1
    /\ IF bargs.shifted
       THEN /\ bpair' = bpair + 1
            /\ bpc' = IF bpair + 1 < bmod.layers \div 2 THEN "layer_regular" ELSE "done"
       ELSE /\ bpair' = bpair
            /\ bpc' = "layer_shifted"
    /\ UNCHANGED <<bmod, bargs, bx, bval, bi, bcalls, breads, fvars, wvars, tvars, pvars, svars, dvars, cvars>>

NextBlock ==
    \/ StageCallsRegular
    \/ StageCallsShifted
    \/ ShiftedBlockCalled
    \/ BNorm
    \/ BAttention
    \/ BFeedForward
    \/ BDropPath
    \/ BAdd
    \/ BReturn

SpecBlock == InitBlock /\ [][NextBlock]_vars

(***************************************************************************)
(* The tau machine: the parameter tau of a WindowAttention of Swin v2,     *)
(* which the optimizer may set to any value, and the division of forward.  *)
(* Values are in thousandths.                                              *)
(***************************************************************************)
TauFloor == 10
TauChoices == {5, 10, 500, 1000}

RECURSIVE SeqsOf(_, _)
SeqsOf(S, n) == IF n = 0 THEN {<<>>} ELSE {Append(q, e) : q \in SeqsOf(S, n - 1), e \in S}

\* self.tau = nn.Parameter(torch.ones(1, number_of_heads, 1, 1))
TauInit(number_of_heads) == [h \in 1..number_of_heads |-> 1000]

\* Python's max(a, b) on the values: it returns b if bool(b > a) and a
\* otherwise; bool() of a tensor of more than one element raises RuntimeError.
builtin_max_values(a, b) ==
    IF Len(a) # 1 THEN [err |-> "RuntimeError", value |-> <<>>]
    ELSE IF b > a[1] THEN [err |-> "none", value |-> <<b>>]
    ELSE [err |-> "none", value |-> a]

InitTau ==
    /\ \E n \in 1..MaxHeads : tau = TauInit(n)
    /\ divisor = [err |-> "unset", value |-> <<>>]
    /\ ForwardIdle
    /\ WindowIdle
    /\ TrainIdle
    /\ MergeIdle
    /\ BlockIdle
    /\ DropIdle
    /\ TokenIdle

\* optimizer.step(): tau is a parameter, it may take any value.
TauStep ==
    /\ tau' \in SeqsOf(TauChoices, Len(tau))
    /\ divisor' = [err |-> "unset", value |-> <<>>]
    /\ UNCHANGED <<fvars, wvars, tvars, pvars, bvars, dvars, cvars>>

\* WindowAttention.forward (v2): scores /= max(self.tau, 0.01)
TauDivide ==
    /\ divisor.err = "unset"
    /\ divisor' = builtin_max_values(tau, TauFloor)
    /\ UNCHANGED <<tau, fvars, wvars, tvars, pvars, bvars, dvars, cvars>>

NextTau ==
    \/ TauStep
    \/ TauDivide

SpecTau == InitTau /\ [][NextTau]_vars

(***************************************************************************)
(* The DropPath machine: one DropPath module (the class is the same in the *)
(* two Swin notebooks) and the calls of its forward.  A probability and a  *)
(* tensor element are fractions; a fraction of denominator 0 is what a     *)
(* division by zero leaves.                                                *)
(***************************************************************************)
ProbChoices == {Frac(0, 1), Frac(1, 10), Frac(1, 2), Frac(1, 1)}
SampleChoices == {<<1, 2>>, <<3, 3>>}

DropPathModules ==
    {[drop_prob |-> p, scale_by_keep |-> s, training |-> TRUE] :
        p \in ProbChoices, s \in BOOLEAN}

\* keep_prob = 1 - self.drop_prob
keep_prob(drop_prob) == Frac(drop_prob.den - drop_prob.num, drop_prob.den)

\* The values bernoulli_(keep_prob) may give one sample.
Bernoulli(keep) ==
    IF keep.num = 0 THEN {0}
    ELSE IF keep.num = keep.den THEN {1}
    ELSE {0, 1}

ShouldDivideWhenScaling(keep, scale_by_keep) == scale_by_keep
\* if keep_prob > 0.0 and self.scale_by_keep
ShouldDivide(keep, scale_by_keep) == keep.num > 0 /\ scale_by_keep

\* random_tensor.div_(keep_prob), on one element.
Div(a, keep) == Frac(a.num * keep.den, a.den * keep.num)

\* x * random_tensor, on one element of x and the number of its sample.
Mul(v, r) == Frac(v * r.num, r.den)

InitDrop ==
    /\ dmod \in DropPathModules
    /\ dinp = <<>>
    /\ drand = <<>>
    /\ dout = <<>>
    /\ dpc = "idle"
    /\ ForwardIdle
    /\ WindowIdle
    /\ TrainIdle
    /\ MergeIdle
    /\ BlockIdle
    /\ TauIdle
    /\ TokenIdle

\* model.train() or model.eval(), then a call of forward with a new x.
DPCall ==
    /\ dpc \in {"idle", "done"}
    /\ \E tr \in BOOLEAN : dmod' = [dmod EXCEPT !.training = tr]
    /\ \E b \in 1..MaxBatch : dinp' \in SeqsOf(SampleChoices, b)
    /\ drand' = <<>>
    /\ dout' = <<>>
    /\ dpc' = "check"
    /\ UNCHANGED <<fvars, wvars, tvars, pvars, bvars, svars, cvars>>

\* if self.drop_prob == 0. or not self.training: return x
DPCheck ==
    /\ dpc = "check"
    /\ IF dmod.drop_prob.num = 0 \/ ~dmod.training
       THEN /\ dout' = [s \in 1..Len(dinp) |-> [e \in 1..Len(dinp[s]) |-> Frac(dinp[s][e], 1)]]
            /\ dpc' = "done"
       ELSE /\ dout' = dout
            /\ dpc' = "bernoulli"
    /\ UNCHANGED <<dmod, dinp, drand, fvars, wvars, tvars, pvars, bvars, svars, cvars>>

\* shape = (x.shape[0],) + (1,) * (x.ndim - 1)
\* random_tensor = x.new_empty(shape).bernoulli_(keep_prob)
DPBernoulli ==
    /\ dpc = "bernoulli"
    /\ \E r \in SeqsOf(Bernoulli(keep_prob(dmod.drop_prob)), Len(dinp)) :
          drand' = [s \in 1..Len(dinp) |-> Frac(r[s], 1)]
    /\ dpc' = "scale"
    /\ UNCHANGED <<dmod, dinp, dout, fvars, wvars, tvars, pvars, bvars, svars, cvars>>

\* if keep_prob > 0.0 and self.scale_by_keep: random_tensor.div_(keep_prob)
DPScale ==
    /\ dpc = "scale"
    /\ drand' = IF ShouldDivide(keep_prob(dmod.drop_prob), dmod.scale_by_keep)
                THEN [s \in 1..Len(drand) |-> Div(drand[s], keep_prob(dmod.drop_prob))]
                ELSE drand
    /\ dpc' = "multiply"
    /\ UNCHANGED <<dmod, dinp, dout, fvars, wvars, tvars, pvars, bvars, svars, cvars>>

\* return x * random_tensor
DPMultiply ==
    /\ dpc = "multiply"
    /\ dout' = [s \in 1..Len(dinp) |-> [e \in 1..Len(dinp[s]) |-> Mul(dinp[s][e], drand[s])]]
    /\ dpc' = "done"
    /\ UNCHANGED <<dmod, dinp, drand, fvars, wvars, tvars, pvars, bvars, svars, cvars>>

NextDrop ==
    \/ DPCall
    \/ DPCheck
    \/ DPBernoulli
    \/ DPScale
    \/ DPMultiply

SpecDrop == InitDrop /\ [][NextDrop]_vars

(***************************************************************************)
(* The token machine: the model of make_model(img_size, patch_size, ...)   *)
(* and the sequence of tokens of each batch element through ViT.forward.   *)
(* A token is the cls_token or the patch of a batch element at a row and   *)
(* a column of patches, with the number of encoder layers it went through. *)
(***************************************************************************)
MaxImage == 6
MaxPatch == 3
EncoderDepths == {1, 2}

ClsToken == [kind |-> "cls", n |-> 0, at |-> <<0, 0>>, depth |-> 0]
Patch(n, i, j) == [kind |-> "patch", n |-> n, at |-> <<i, j>>, depth |-> 0]

CatClsLast(cls, patches) == patches \o <<cls>>
\* torch.cat([self.cls_token.expand(x.size(0), -1, -1), x], dim=1), for one
\* batch element.
Cat(cls, patches) == <<cls>> \o patches

InitToken ==
    /\ cmod \in {[img_size |-> s, patch_size |-> p, N |-> n] :
                    s \in 1..MaxImage, p \in 1..MaxPatch, n \in EncoderDepths}
    /\ cinp = 0
    /\ cseq = <<>>
    /\ cfed = <<>>
    /\ cpc = "idle"
    /\ ForwardIdle
    /\ WindowIdle
    /\ TrainIdle
    /\ MergeIdle
    /\ BlockIdle
    /\ TauIdle
    /\ DropIdle

\* model(x) with x of shape [b, 1, img_size, img_size]
CTCall ==
    /\ cpc \in {"idle", "done", "raised"}
    /\ cinp' \in 1..MaxBatch
    /\ cseq' = <<>>
    /\ cfed' = <<>>
    /\ cpc' = "conv"
    /\ UNCHANGED <<cmod, fvars, wvars, tvars, pvars, bvars, svars, dvars>>

\* PatchEmbedding.forward: x = self.conv(x).flatten(2).transpose(1, 2)
\* Token k of the sequence is the patch at row k // n_w, column k % n_w.
CTConv ==
    /\ cpc = "conv"
    /\ LET c == Conv2d(Ok(<<cinp, 1, cmod.img_size, cmod.img_size>>), 1, 2, cmod.patch_size)
       IN  IF c.err # "none"
           THEN /\ cpc' = "raised"
                /\ cseq' = cseq
           ELSE /\ cpc' = "cat"
                /\ cseq' = [b \in 1..cinp |->
                              [k \in 1..(c.shape[3] * c.shape[4]) |->
                                  Patch(b, (k - 1) \div c.shape[4], (k - 1) % c.shape[4])]]
    /\ UNCHANGED <<cmod, cinp, cfed, fvars, wvars, tvars, pvars, bvars, svars, dvars>>

\* PatchEmbedding.forward: return torch.cat([cls_token.expand(...), x], dim=1)
CTCat ==
    /\ cpc = "cat"
    /\ cseq' = [b \in 1..cinp |-> Cat(ClsToken, cseq[b])]
    /\ cpc' = "pos"
    /\ UNCHANGED <<cmod, cinp, cfed, fvars, wvars, tvars, pvars, bvars, svars, dvars>>

\* PositionalEmbedding.forward: x + self.pos_embedding, of num_steps positions.
CTPos ==
    /\ cpc = "pos"
    /\ LET added == PositionalEmbedding(Ok(<<cinp, Len(cseq[1]), 2>>),
                                        NumSteps(cmod.img_size, cmod.patch_size), 2)
       IN  cpc' = IF added.err # "none" THEN "raised"
                  ELSE IF cmod.N > 0 THEN "layer" ELSE "generator"
    /\ UNCHANGED <<cmod, cinp, cseq, cfed, fvars, wvars, tvars, pvars, bvars, svars, dvars>>

\* Encoder.forward: x = layer(x, mask); a layer returns, at each index of the
\* sequence, the state of the token at that index.
CTLayer ==
    /\ cpc = "layer"
    /\ cseq' = [b \in 1..cinp |-> [k \in 1..Len(cseq[b]) |->
                   [cseq[b][k] EXCEPT !.depth = cseq[b][k].depth + 1]]]
    /\ cpc' = IF cseq[1][1].depth + 1 < cmod.N THEN "layer" ELSE "generator"
    /\ UNCHANGED <<cmod, cinp, cfed, fvars, wvars, tvars, pvars, bvars, svars, dvars>>

\* ViT.forward: return self.generator(self.encode(x)[:, 0])
CTGenerator ==
    /\ cpc = "generator"
    /\ cfed' = [b \in 1..cinp |-> cseq[b][PyIndex(0, Len(cseq[b])) + 1]]
    /\ cpc' = "done"
    /\ UNCHANGED <<cmod, cinp, cseq, fvars, wvars, tvars, pvars, bvars, svars, dvars>>

NextToken ==
    \/ CTCall
    \/ CTConv
    \/ CTCat
    \/ CTPos
    \/ CTLayer
    \/ CTGenerator

SpecToken == InitToken /\ [][NextToken]_vars




(***************************************************************************)
(* Claims about the forward machine (checked under SpecForward).           *)
(***************************************************************************)
\* The side that enters stage i of a Swin model whose input has side s: every
\* stage before it divides by its downscaling factor.
RECURSIVE SideAtStage(_, _, _)
SideAtStage(s, df, i) == IF i = 1 THEN s ELSE SideAtStage(s, df, i - 1) \div df[i - 1]

InputSides == {input[3], input[4]}

\* At every stage the side that enters is a positive multiple of the stage's
\* downscaling factor, and the side after the patch merging is a positive
\* multiple of window_size.
SidesFit ==
    \A s \in InputSides : \A i \in 1..4 :
        LET e == SideAtStage(s, cfg.downscaling_factors, i)
            f == cfg.downscaling_factors[i]
        IN  /\ e > 0
            /\ e % f = 0
            /\ e \div f > 0
            /\ (e \div f) % cfg.window_size = 0

\* At every stage the side that enters is a positive multiple of both the
\* stage's downscaling factor and window_size.
SidesFitAsStated ==
    \A s \in InputSides : \A i \in 1..4 :
        LET e == SideAtStage(s, cfg.downscaling_factors, i)
        IN  /\ e > 0
            /\ e % cfg.downscaling_factors[i] = 0
            /\ e % cfg.window_size = 0

ReturnsClasses ==
    /\ pc # "raised"
    /\ pc = "done" => x = Ok(<<input[1], cfg.num_classes>>)

\* C1 (as amended): Swin v1, input [B, C, H, W] with C = in_channels, the side
\* entering every stage a positive multiple of that stage's downscaling factor
\* and the side after that stage's patch merging a positive multiple of
\* window_size: forward never raises and returns a tensor of shape
\* [B, num_classes].
C1_ForwardShape ==
    (arch = "swin1" /\ input[2] = cfg.in_channels /\ SidesFit) => ReturnsClasses

\* C1, witness: such a forward has returned, for a window larger than one token
\* and a map that is not square.
C1_Witness ==
    /\ arch = "swin1" /\ input[2] = cfg.in_channels /\ SidesFit
    /\ cfg.window_size > 1 /\ input[3] # input[4]
    /\ pc = "done"

\* C1 (as stated): the same with every stage's entering side a positive
\* multiple of both the stage's downscaling factor and window_size.
C1_AsStated ==
    (arch = "swin1" /\ input[2] = cfg.in_channels /\ SidesFitAsStated) => ReturnsClasses

\* C2: Swin v2 with the notebook's own configuration on a 96 x 96 input runs
\* through all four stages without raising and returns [B, num_classes].
C2_V2NotebookRuns ==
    (arch = "swin2" /\ cfg = NotebookV2Config /\ input[2] = 1 /\ input[3] = 96 /\ input[4] = 96)
        => ReturnsClasses

\* C3 (as amended): ViT built by make_model with img_size >= patch_size, on an
\* input [B, num_channels, img_size, img_size]: forward never raises and
\* returns a tensor of shape [B, num_classes].
C3_ViTShape ==
    (arch = "vit" /\ cfg.img_size >= cfg.patch_size) => ReturnsClasses

\* C3, witness: such a forward has returned, for an img_size that is not a
\* multiple of patch_size.
C3_Witness ==
    /\ arch = "vit" /\ cfg.img_size >= cfg.patch_size
    /\ cfg.img_size % cfg.patch_size # 0
    /\ pc = "done"

\* C3 (as stated): the same for every img_size and patch_size make_model accepts.
C3_AsStated == arch = "vit" => ReturnsClasses

\* The modules a stage with the given number of layers applies, in order.
Alternation(layers, window_size) ==
    [k \in 1..(layers + 1) |->
        IF k = 1 THEN [op |-> "patch_merging", shift |-> 0]
        ELSE IF k % 2 = 0 THEN [op |-> "block", shift |-> 0]
        ELSE [op |-> "block", shift |-> window_size \div 2]]

\* C5: a Swin v1 stage built with layers = 2k has, when it returns, applied one
\* patch merging and then exactly 2k blocks with shifts 0, window_size // 2,
\* 0, window_size // 2, ...; before it returns it has applied a prefix of that.
C5_Alternation ==
    arch = "swin1" =>
        LET want == Alternation(cfg.num_layers[stage], cfg.window_size)
        IN  /\ Len(log) <= Len(want)
            /\ log = SubSeq(want, 1, Len(log))
            /\ pc \in {"stage_permute", "mlp_head", "done"} => log = want

\* C5, witness: a stage of four layers is about to return.
C5_Witness ==
    /\ arch = "swin1" /\ pc = "stage_permute"
    /\ cfg.num_layers[stage] = 4 /\ cfg.window_size = 3
    /\ Len(log) = 5

WindowOf(r, c) == (r \div wmod.window_size) * (winp.w \div wmod.window_size) + (c \div wmod.window_size)

\* The position (r % ws) * ws + (c % ws) in its window.
PositionOf(r, c) == (r % wmod.window_size) * wmod.window_size + (c % wmod.window_size)

\* C4: when x has been partitioned, the element of feature hd * d_k + d of the
\* token at (r, c) of batch element n is at [n, hd, WindowOf(r, c), PositionOf(r, c), d]
\* of query and query has no other elements, every window holds ws * ws
\* tokens; when the scores have been computed, every score is of a query token
\* and a key token of the window of the score.
C4_Windows ==
    /\ wpc = "scores" =>
         /\ \A i \in Indices4(InShape(wmod, winp)) :
              query[<<i[1], i[4] \div wmod.d_k, WindowOf(i[2], i[3]), PositionOf(i[2], i[3]), i[4] % wmod.d_k>>] = i
         /\ Cardinality(DOMAIN query) = Cardinality(Indices4(InShape(wmod, winp)))
         /\ \A n \in 0..(winp.b - 1) : \A win \in 0..(WindowsShape(wmod, winp)[3] - 1) :
              Cardinality({Token(query[j]) : j \in {k \in DOMAIN query : k[1] = n /\ k[3] = win}})
                  = wmod.window_size * wmod.window_size
    /\ wpc = "mask" =>
         \A k \in DOMAIN scores :
              LET e == scores[k]
              IN  /\ e.q[1] = k[1] /\ e.k[1] = k[1]
                  /\ WindowOf(e.q[2], e.q[3]) = k[3]
                  /\ WindowOf(e.k[2], e.k[3]) = k[3]

\* C4, witness: the scores of a map of two by two windows of more than one
\* token have been computed.
C4_Witness ==
    /\ wpc = "mask"
    /\ wmod.window_size > 1
    /\ winp.h = 2 * wmod.window_size /\ winp.w = 2 * wmod.window_size
    /\ scores # <<>>

\* C6: when the scores have been computed, the bias of the score of query
\* token i and key token j is the entry of the table of the head of the score
\* at the offset pos(j) - pos(i), taken modulo 2M - 1 in each direction: the
\* same for every window and every batch element, and different for different
\* offsets.
C6_RelativePositionBias ==
    wpc = "mask" =>
        \A k \in DOMAIN scores :
            LET M  == wmod.window_size
                e  == scores[k]
                dr == e.k[2] - e.q[2]
                dc == e.k[3] - e.q[3]
            IN  /\ dr \in (1 - M)..(M - 1)
                /\ dc \in (1 - M)..(M - 1)
                /\ e.bias = <<k[2], dr % (2 * M - 1), dc % (2 * M - 1)>>

\* C6, witness: scores with biases are there for several heads, several
\* windows, several batch elements and a window of more than one token.
C6_Witness ==
    /\ wpc = "mask"
    /\ wmod.window_size = MaxWindowSize
    /\ wmod.number_of_heads > 1
    /\ winp.b > 1
    /\ winp.w > wmod.window_size

\* C8: relative_indices, left_right_mask and upper_lower_mask are what the
\* constructors computed from window_size (and the shift_size window_size // 2
\* of the stage), whatever calls of forward there have been.
C8_BuffersUnchanged == bufs = Buffers(wmod.window_size)

\* C8, witness: a call in train mode of a shifted block has returned, and its
\* masked_fill_ has filled scores.
C8_Witness ==
    /\ wpc = "idle"
    /\ winp.training
    /\ wmod.shift_size # 0
    /\ scores # <<>>
    /\ \E k \in DOMAIN scores : scores[k].masked

(***************************************************************************)
(* Claims about the training cell (checked under SpecTrain).               *)
(***************************************************************************)
\* C9: a step of the training cell changes the parameters only if it is
\* optim.step() between model.train() and model.eval(); the steps of a forward
\* pass and the steps after model.eval() leave them unchanged.
C9_OnlyOptimizerStep ==
    [][/\ params' # params => (tpc = "step" /\ training)
       /\ (tpc = "in_forward" \/ tpc = "forward" \/ ~training) => params' = params]_vars

\* C9, witness: the validation loop is running a forward pass after optimizer
\* steps have changed the parameters.
C9_Witness ==
    /\ tpc = "in_forward"
    /\ ~training
    /\ pc \notin {"idle", "done", "raised"}
    /\ params > 0
    /\ epoch > 0

(***************************************************************************)
(* Claims about the patch merging machine (checked under SpecMerge).       *)
(***************************************************************************)
\* C7: when forward has run on an input [B, C, H, W] with H and W multiples of
\* f it has returned a tensor of shape [B, H // f, W // f, C'], the token at
\* (i, j) of batch element n is computed from exactly the C * f * f elements of
\* batch element n with rows in [i * f, i * f + f) and columns in
\* [j * f, j * f + f), and every position is used by exactly one token.
C7_PatchMerging ==
    (ppc \in {"done", "raised"} /\ pinp[3] % pmod.downscaling_factor = 0 /\ pinp[4] % pmod.downscaling_factor = 0) =>
        LET f == pmod.downscaling_factor
        IN  /\ ppc = "done"
            /\ pout.shape = Ok(<<pinp[1], pinp[3] \div f, pinp[4] \div f, pmod.out_channels>>)
            /\ DOMAIN pout.from = {<<n, i, j>> : n \in 0..(pinp[1] - 1), i \in 0..((pinp[3] \div f) - 1),
                                                 j \in 0..((pinp[4] \div f) - 1)}
            /\ \A tok \in DOMAIN pout.from :
                 /\ pout.from[tok] = {<<tok[1], ch, r, c>> : ch \in 0..(pinp[2] - 1),
                                                              r \in (tok[2] * f)..(tok[2] * f + f - 1),
                                                              c \in (tok[3] * f)..(tok[3] * f + f - 1)}
                 /\ Cardinality(pout.from[tok]) = pinp[2] * f * f
            /\ \A n \in 0..(pinp[1] - 1) : \A r \in 0..(pinp[3] - 1) : \A c \in 0..(pinp[4] - 1) :
                 Cardinality({tok \in DOMAIN pout.from :
                                 \E ch \in 0..(pinp[2] - 1) : <<n, ch, r, c>> \in pout.from[tok]}) = 1

\* C7, witness: forward has returned for a map that is not square, of several
\* blocks of several positions, several channels and several batch elements.
C7_Witness ==
    /\ ppc = "done"
    /\ pmod.downscaling_factor = 2 /\ pmod.in_channels = 2
    /\ pinp = <<2, 2, 4, 6>>

\* C11: torch.save writes at most once, and only when the epoch loop has run
\* all max_epochs epochs; what it writes is the parameter state then current,
\* which is the state the last of the max_epochs * len(loader_train) optimizer
\* steps left.
C11_SavedAtEnd ==
    /\ Len(saved) <= 1
    /\ tpc \in {"save", "end"} => (epoch = max_epochs /\ printed = max_epochs)
    /\ saved # <<>> =>
         /\ tpc = "end"
         /\ saved[1] = params
         /\ params = max_epochs * loaders.train

\* C11, witness: the ViT notebook has saved its parameters after training on
\* several batches an epoch.
C11_Witness ==
    /\ arch = "vit"
    /\ tpc = "end"
    /\ loaders.train > 1
    /\ saved = <<params>>
    /\ params > 0


\* C12: in Swin v1, for every in_features, stage i is built with
\* in_features * 2^(i-1) features, which is the channel count stage i+1's patch
\* merging is built for, and stage 4's features are the in_features * 8 of the
\* head; in a call of forward the patch-merging output, every block's input
\* and output all carry the stage's feature count in the last dimension, the
\* permuted stage output carries it in dimension 1, and the head receives
\* in_features * 8 features.
C12_ShapeConsistency ==
    (arch = "swin1" /\ pc # "construct") =>
        /\ \A i \in 1..3 :
              /\ StageInFeatures(cfg, i) = cfg.in_features * 2^(i - 1)
              /\ StageInChannels(cfg, i + 1) = StageInFeatures(cfg, i)
        /\ StageInFeatures(cfg, 4) = cfg.in_features * 8
        /\ x.err = "none" =>
              /\ pc \in {"layer_regular", "layer_shifted", "stage_permute"} =>
                    /\ Len(x.shape) = 4
                    /\ x.shape[4] = cfg.in_features * 2^(stage - 1)
              /\ (pc = "stage_merge" /\ stage > 1) =>
                    /\ x.shape[2] = cfg.in_features * 2^(stage - 2)
                    /\ x.shape[2] = StageInChannels(cfg, stage)
              /\ pc = "mlp_head" => x.shape[2] = cfg.in_features * 8
              /\ pc = "done" => x.shape = <<input[1], cfg.num_classes>>

C12_Witness ==
    /\ arch = "swin1" /\ cfg.in_features = 128 /\ cfg.num_layers[3] = 4
    /\ pc = "mlp_head" /\ stage = 4 /\ x.err = "none" /\ x.shape[2] = 1024

\* Some assert of the constructors fails on the arguments: StageModule's on
\* layers, WindowAttention's on number_of_heads, MultiHeadAttention's on h.
AssertFails ==
    IF arch = "vit"
    THEN cfg.d_model % cfg.h # 0
    ELSE \E i \in 1..4 :
            \/ cfg.num_layers[i] % 2 # 0
            \/ (cfg.in_features * 2^(i - 1)) % cfg.heads[i] # 0

DivisorOf(h) == divisor.value[IF Len(divisor.value) = 1 THEN 1 ELSE h]

\* C14: for every number of heads and every value of tau, the division of
\* scores by max(self.tau, 0.01) is carried out, and it divides each head by
\* at least 0.01 and by that head's own tau when that tau is at least 0.01.
C14_TauClamped ==
    divisor.err # "unset" =>
        /\ divisor.err = "none"
        /\ \A h \in 1..Len(tau) :
              /\ DivisorOf(h) >= TauFloor
              /\ tau[h] >= TauFloor => DivisorOf(h) = tau[h]

\* The expressions of the pre-norm block and of the res-post-norm block.
AttentionUnit(mask) ==
    App("add", <<ArgX, App("drop_path", <<App("attention", <<App("norm1", <<ArgX>>), mask>>)>>)>>)

PreNormBlock(mask) ==
    LET y == AttentionUnit(mask)
    IN  App("add", <<y, App("drop_path", <<App("feed_forward", <<App("norm2", <<y>>)>>)>>)>>)

PostNormUnit(mask) ==
    App("add", <<ArgX, App("drop_path", <<App("norm1", <<App("attention", <<ArgX, mask>>)>>)>>)>>)

PostNormBlock(mask) ==
    LET y == PostNormUnit(mask)
    IN  App("add", <<y, App("drop_path", <<App("norm2", <<App("feed_forward", <<y>>)>>)>>)>>)

\* The modules the current block has called, in order.
Modules == [k \in 1..Len(bcalls) |-> bcalls[k].module]

\* C15: a Swin v1 block never raises, calls norm1, attention, drop_path,
\* norm2, feed_forward, drop_path in this order, attention with the block's
\* mask; after the first statement x is x + drop_path(attention(norm1(x), mask))
\* and the block returns y + drop_path(feed_forward(norm2(y))) of that y.
C15_PreNorm ==
    (bmod.version = "v1" /\ bpc # "idle") =>
        /\ bpc # "raised"
        /\ Modules = SubSeq(<<"norm1", "attention", "drop_path", "norm2", "feed_forward", "drop_path">>,
                            1, Len(bcalls))
        /\ (bpc = "block" /\ bi \in 5..8) => bx = AttentionUnit(bargs.mask)
        /\ (bpc = "block" /\ bi = 9) => bx = PreNormBlock(bargs.mask)

C15_Witness ==
    /\ bmod.version = "v1" /\ bpc = "block" /\ bi = 9 /\ bpair = 1
    /\ bargs.shift_size > 0 /\ bargs.mask = MaskPair /\ Len(bcalls) = 6

\* C16: a Swin v2 block never raises; its attention runs on the block's
\* input with the block's mask, norm1 normalises the attention's output
\* before it is added to the input, and norm2 the MLP's output before it is
\* added.
C16_ResPostNorm ==
    (bmod.version = "v2" /\ bpc # "idle") =>
        /\ bpc # "raised"
        /\ (bpc = "block" /\ bi \in 5..8) => bx = PostNormUnit(bargs.mask)
        /\ (bpc = "block" /\ bi = 9) => bx = PostNormBlock(bargs.mask)

\* C20: in both notebooks the attention of a shifted block receives the
\* pair of masks the stage gave to the block, no read of mask[0] or mask[1]
\* finds None, and a block of shift_size 0 reads no mask.
C20_MaskReaches ==
    bpc # "idle" =>
        /\ \A k \in 1..Len(bcalls) :
              (bcalls[k].module = "attention" /\ bargs.shift_size # 0) =>
                  bcalls[k].args[2] = MaskPair
        /\ \A k \in 1..Len(breads) : breads[k] # NoMask
        /\ bargs.shift_size = 0 => breads = <<>>


\* The batches one epoch takes: every batch of loader_train in order, then
\* every batch of loader_val in order.
EpochVisits ==
    [k \in 1..(loaders.train + loaders.val) |->
        IF k <= loaders.train
        THEN [train |-> TRUE, batch |-> k - 1]
        ELSE [train |-> FALSE, batch |-> k - loaders.train - 1]]

EpochsInOrder ==
    tpc # "idle" =>
        /\ epoch <= max_epochs
        /\ printed = epoch
        /\ visits = SubSeq(EpochVisits, 1, Len(visits))
        /\ tpc = "print" => visits = EpochVisits
        /\ (tpc = "epoch" /\ epoch > 0) => visits = EpochVisits
        /\ tpc \in {"save", "end"} => (epoch = max_epochs /\ printed = max_epochs)

\* C17: the epoch loop runs epochs 0..max_epochs-1 and no more; the batches
\* an epoch has taken are at every moment a prefix of: each batch of
\* loader_train once, then each batch of loader_val once, and all of them when
\* the one result line of the epoch is printed; once the cell runs, the loop
\* ends after max_epochs printed lines unless a step raises.
C17_EpochsTerminate ==
    /\ []EpochsInOrder
    /\ (tpc = "epoch") ~> (tpc = "raised" \/ (tpc = "save" /\ printed = max_epochs))

C17_Witness ==
    /\ arch = "swin1" /\ tpc = "save" /\ printed = max_epochs
    /\ loaders = [train |-> 3, val |-> 2] /\ Len(visits) = 5


(***************************************************************************)
(* Claims about the masks of the shifted window attention (SpecWindow).    *)
(***************************************************************************)
\* The token at row r, column c of the shifted map of batch element n was
\* carried across the seam by the cyclic shift: along the rows, along the columns.
WrappedRow(tok) == wx[<<tok[1], tok[2], tok[3], 0>>][2] < tok[2]
WrappedCol(tok) == wx[<<tok[1], tok[2], tok[3], 0>>][3] < tok[3]

\* C18: in a shifted block, when the masks have been applied, the score of
\* two tokens of a window is left unmasked exactly if the cyclic shift wrapped
\* both or neither of them along the rows, and both or neither along the
\* columns; the wrapped tokens are those of the last shift_size rows and
\* columns, so a window outside the last window-row and the last
\* window-column has no masked score.
C18_ShiftedMask ==
    (wpc = "merge" /\ wmod.shift_size # 0) =>
        \A k \in DOMAIN scores :
            LET e == scores[k]
            IN  /\ e.masked = ~(/\ WrappedRow(e.q) = WrappedRow(e.k)
                                /\ WrappedCol(e.q) = WrappedCol(e.k))
                /\ WrappedRow(e.q) = (e.q[2] >= winp.h - wmod.shift_size)
                /\ WrappedCol(e.q) = (e.q[3] >= winp.w - wmod.shift_size)
                /\ (/\ WindowOf(e.q[2], e.q[3]) \div (winp.w \div wmod.window_size) # winp.h \div wmod.window_size - 1
                    /\ WindowOf(e.q[2], e.q[3]) % (winp.w \div wmod.window_size) # winp.w \div wmod.window_size - 1)
                       => ~e.masked

\* C18, witness: a shifted block of window_size 3 on a map of two by two
\* windows has masked some scores of its last window and left others.
C18_Witness ==
    /\ wpc = "merge"
    /\ wmod.window_size = 3 /\ wmod.shift_size = 1
    /\ winp.h = 6 /\ winp.w = 6
    /\ \E k \in DOMAIN scores : k[3] = 3 /\ scores[k].masked
    /\ \E k \in DOMAIN scores : k[3] = 3 /\ ~scores[k].masked /\ k[4] # k[5]
    /\ \E k \in DOMAIN scores : k[3] = 1 /\ scores[k].masked


\* The pairs (offset, table entry) that the scores of head hd were computed with.
BiasReads(hd) ==
    {<<scores[k].k[2] - scores[k].q[2], scores[k].k[3] - scores[k].q[3],
       scores[k].bias[2], scores[k].bias[3]>> : k \in {j \in DOMAIN scores : j[2] = hd}}

\* C19: when the scores have been computed, the relative indices lie in
\* -(M - 1)..(M - 1), which are valid indices of a dimension of size 2M - 1, and
\* for every head the offsets of the token pairs and the entries of the
\* (2M - 1) x (2M - 1) table read for them are in one-to-one correspondence:
\* every offset pair occurs, every entry is read, and there are exactly
\* (2M - 1)^2 pairs (offset, entry).
C19_BiasTableBijection ==
    wpc = "mask" =>
        LET M == wmod.window_size
        IN  /\ \A i \in DOMAIN bufs.relative_indices : \A j \in DOMAIN bufs.relative_indices[i] :
                  \A a \in 1..2 :
                      /\ bufs.relative_indices[i][j][a] \in (1 - M)..(M - 1)
                      /\ bufs.relative_indices[i][j][a] >= -(2 * M - 1)
                      /\ bufs.relative_indices[i][j][a] < 2 * M - 1
            /\ \A hd \in 0..(wmod.number_of_heads - 1) :
                  /\ {<<r[1], r[2]>> : r \in BiasReads(hd)} = ((1 - M)..(M - 1)) \X ((1 - M)..(M - 1))
                  /\ {<<r[3], r[4]>> : r \in BiasReads(hd)} = (0..(2 * M - 2)) \X (0..(2 * M - 2))
                  /\ Cardinality(BiasReads(hd)) = (2 * M - 1) * (2 * M - 1)

\* C19, witness: the scores of a window of 3 x 3 tokens, whose offsets -2..2
\* read a table of 5 x 5 entries, the negative ones from its end.
C19_Witness ==
    /\ wpc = "mask"
    /\ wmod.window_size = 3
    /\ \E r \in BiasReads(0) : r[1] = -2 /\ r[2] = -1 /\ r[3] = 3 /\ r[4] = 4


\* C21: the step that merges the windows back puts every element where the
\* partition took it from: the element that the partition placed at the index
\* the merge reads for position i comes from position i of x, so x after the
\* merge holds at every position what it held before the partition.
C21_PartitionRoundTrip ==
    [][wpc = "merge" =>
          /\ \A i \in DOMAIN wx : query[WindowMergeSource(i, wmod, winp)] = i
          /\ wx' = wx]_vars

\* C21, witness: the windows of a map that is not square, with several heads
\* and features, have been merged back.
C21_Witness ==
    /\ wpc = "back"
    /\ wmod.window_size = 3 /\ wmod.number_of_heads = 2 /\ wmod.d_k = 2
    /\ winp.h = 6 /\ winp.w = 3
    /\ query[<<1, 1, 1, 5, 1>>] = <<1, 4, 2, 3>>


\* C22: along a dimension of any size n and for any displacement s, rolling by
\* s what was rolled by -s reads every position from itself, and the roll by -s
\* puts at (r - s) mod n what was at r; in a shifted WindowAttention the token
\* that entered at (r, c) is at ((r - s) mod H, (c - s) mod W) after the cyclic
\* shift, and when forward has returned every position holds the result of the
\* token that entered there.
C22_CyclicShiftRoundTrip ==
    /\ \A n \in 1..MaxRollSize : \A s \in (-MaxRollSize)..MaxRollSize : \A r \in 0..(n - 1) :
          /\ RollSource(RollSource(r, s, n), -s, n) = r
          /\ RollSource((r - s) % n, -s, n) = r
    /\ (wpc = "partition" /\ wmod.shift_size # 0) =>
          \A i \in DOMAIN wx :
              wx[<<i[1], (i[2] - wmod.shift_size) % winp.h, (i[3] - wmod.shift_size) % winp.w, i[4]>>] = i
    /\ (wpc = "idle" /\ winp # NoCall) => \A i \in DOMAIN wx : wx[i] = i

\* C22, witness: the cyclic shift of a shifted block has moved the token of
\* the first row and column to the last row and column.
C22_Witness ==
    /\ wmod.shift_size = 1 /\ wmod.window_size = 3 /\ winp.h = 6 /\ winp.w = 6
    /\ wmod.d_k = 2
    /\ wpc = "partition"
    /\ wx[<<0, 5, 5, 0>>] = <<0, 0, 0, 0>>
    /\ wx[<<1, 0, 2, 3>>] = <<1, 1, 3, 3>>


\* C23: left_right_mask and upper_lower_mask are [ws * ws, ws * ws] matrices
\* of zeros and ones, symmetric, with ones on the diagonal, and all ones when
\* window_size is 1; when the masks have been applied, in every window the
\* score of a token with itself is unmasked, so no row of scores is masked
\* throughout.
C23_MaskMatrices ==
    LET n == wmod.window_size * wmod.window_size
    IN  /\ \A m \in {bufs.left_right_mask, bufs.upper_lower_mask} :
              /\ DOMAIN m = 0..(n - 1)
              /\ \A i \in 0..(n - 1) :
                    /\ DOMAIN m[i] = 0..(n - 1)
                    /\ m[i][i] = 1
                    /\ \A j \in 0..(n - 1) : m[i][j] \in {0, 1} /\ m[i][j] = m[j][i]
              /\ wmod.window_size = 1 => m[0][0] = 1
        /\ wpc = "merge" =>
              \A k \in DOMAIN scores : k[4] = k[5] => ~scores[k].masked

\* C23, witness: in the bottom-right window of a shifted block both masks
\* have masked scores of the row of one query token.
C23_Witness ==
    /\ wpc = "merge"
    /\ wmod.window_size = 3 /\ wmod.shift_size = 1 /\ winp.h = 6 /\ winp.w = 6
    /\ bufs.upper_lower_mask[0][8] = 0 /\ bufs.left_right_mask[0][2] = 0
    /\ scores[<<0, 0, 3, 0, 8>>].masked /\ scores[<<0, 0, 3, 0, 2>>].masked
    /\ ~scores[<<0, 0, 3, 0, 0>>].masked


\* C24: when DropPath.forward has returned, no element comes from a division
\* by zero; in eval mode or with drop_prob 0 the output is the input; in
\* training mode with drop_prob > 0 every sample is either zero in all its
\* elements or, in all its elements, the input times 1 / (1 - drop_prob) (times
\* 1 when scale_by_keep is false); with drop_prob 1 every sample is zero.
C24_DropPath ==
    dpc = "done" =>
        LET p == dmod.drop_prob
        IN  /\ Len(dout) = Len(dinp)
            /\ \A s \in 1..Len(dout) : \A e \in 1..Len(dout[s]) : dout[s][e].den # 0
            /\ (~dmod.training \/ p.num = 0) =>
                  \A s \in 1..Len(dout) : \A e \in 1..Len(dout[s]) : dout[s][e] = Frac(dinp[s][e], 1)
            /\ (dmod.training /\ p.num > 0) =>
                  \A s \in 1..Len(dout) :
                      \/ \A e \in 1..Len(dout[s]) : dout[s][e].num = 0
                      \/ \A e \in 1..Len(dout[s]) :
                            IF dmod.scale_by_keep
                            THEN dout[s][e].num * (p.den - p.num) = dinp[s][e] * p.den * dout[s][e].den
                            ELSE dout[s][e].num = dinp[s][e] * dout[s][e].den
            /\ (dmod.training /\ p.num = p.den) =>
                  \A s \in 1..Len(dout) : \A e \in 1..Len(dout[s]) : dout[s][e].num = 0

\* C24, witness: in training mode with drop_prob 1/2 one sample of a batch
\* of two was dropped and the other was doubled.
C24_Witness ==
    /\ dpc = "done" /\ dmod.training /\ dmod.scale_by_keep /\ dmod.drop_prob = Frac(1, 2)
    /\ dinp = <<(<<1, 2>>), (<<3, 3>>)>>
    /\ dout[1] = <<Frac(0, 1), Frac(0, 1)>>
    /\ dout[2] = <<Frac(6, 1), Frac(6, 1)>>


\* C25: with img_size >= patch_size, whether or not patch_size divides
\* img_size, forward does not raise; from the cat on, the sequence of every
\* batch element has (img_size // patch_size)^2 + 1 tokens, as many as the
\* positional embedding has positions, the first is the cls token and the
\* others are the patches of that batch element, each once; the generator is
\* given, for every batch element, the token at index 0 after the N layers of
\* the encoder, which is the cls token.
C25_ClassToken ==
    LET n == cmod.img_size \div cmod.patch_size
    IN  /\ cpc = "raised" => cmod.img_size < cmod.patch_size
        /\ cpc \in {"pos", "layer", "generator", "done"} =>
              /\ Len(cseq) = cinp
              /\ \A b \in 1..cinp :
                    /\ Len(cseq[b]) = n * n + 1
                    /\ Len(cseq[b]) = NumSteps(cmod.img_size, cmod.patch_size)
                    /\ cseq[b][1].kind = "cls"
                    /\ \A k \in 2..Len(cseq[b]) : cseq[b][k].kind = "patch" /\ cseq[b][k].n = b
                    /\ {cseq[b][k].at : k \in 2..Len(cseq[b])} = (0..(n - 1)) \X (0..(n - 1))
        /\ cpc = "done" =>
              /\ Len(cfed) = cinp
              /\ \A b \in 1..cinp :
                    /\ cfed[b] = cseq[b][1]
                    /\ cfed[b].kind = "cls"
                    /\ cfed[b].depth = cmod.N

\* C25, witness: forward has returned on a batch of two images of side 5
\* cut in patches of side 2, which leave a border: four patches and the cls
\* token.
C25_Witness ==
    /\ cpc = "done" /\ cmod.img_size = 5 /\ cmod.patch_size = 2 /\ cmod.N = 2 /\ cinp = 2
    /\ Len(cseq[2]) = 5
    /\ cfed[2].kind = "cls"
    /\ cseq[2][5].at = <<1, 1>>

=============================================================================
